---- MODULE Spec2Model ----
(***************************************************************************)
(* A model of django-chatbot-api:                                          *)
(*   src/chatbot/langchain_nvidia.py  get_weather, get_coordinates,        *)
(*                                    get_nvidia_response, and the         *)
(*                                    keyword-heuristic variant of the     *)
(*                                    module (extract_city_name and its    *)
(*                                    get_nvidia_response)                 *)
(*   src/chatbot/views.py             chat                                 *)
(* A request is followed from its entry to its return: Spec follows one    *)
(* call of a function of the module at a time, RouterSpec the two routers  *)
(* with a smaller set of answers, ViewSpec a request of the endpoint, and  *)
(* ConcurrentSpec two requests handled side by side.  The external         *)
(* services (completion API, weather API, geocoding API), the              *)
(* configuration source and the table of exchanges answer                  *)
(* nondeterministically.                                                   *)
(*                                                                         *)
(* Python values are tagged records (field t).  Text that the code only    *)
(* passes along is a tagged record naming the f-string that built it and   *)
(* the values interpolated; text that the code inspects character by       *)
(* character is a sequence of one-character strings, bare for exception    *)
(* details and weather descriptions and wrapped in a Text record for       *)
(* messages and place names.                                               *)
(***************************************************************************)
EXTENDS Integers, Sequences, FiniteSets, TLC

(***************************************************************************)
(* Bounds of the model.                                                    *)
(***************************************************************************)
\* longest tool_calls list in a completion's message
MaxToolCalls == 2
\* longest result list in a geocoding answer
MaxResults == 2
\* the weather bodies carry readings built from 0..MaxReading
MaxReading == 1

(***************************************************************************)
(* Program constants.                                                      *)
(***************************************************************************)
\* str(e)[:150]
MaxErrorChars == 150
\* response.status_code == 200
HTTP_OK == 200
\* response.status_code == 404
HTTP_NOT_FOUND == 404

(***************************************************************************)
(* Python values.                                                          *)
(***************************************************************************)
None == [t |-> "None"]

\* the outcome of evaluating a call: it returns a value or raises
Return(v) == [t |-> "return", v |-> v]
Raise(e) == [t |-> "raise", exc |-> e]

\* an exception object: its class and str(e)
Exc(cls, detail) == [t |-> "exc", cls |-> cls, detail |-> detail]

\* requests.exceptions.Timeout and the other subclasses of
\* requests.exceptions.RequestException that the model raises
IsTimeout(e) == e.cls = "Timeout"
IsRequestException(e) == e.cls \in {"Timeout", "ConnectionError", "RequestsJSONDecodeError"}

Min(a, b) == IF a <= b THEN a ELSE b

(***************************************************************************)
(* Character strings: str.lower, the `in` substring test, slicing and      *)
(* str.capitalize.                                                         *)
(***************************************************************************)
UpperCase == <<"A","B","C","D","E","F","G","H","I","J","K","L","M",
               "N","O","P","Q","R","S","T","U","V","W","X","Y","Z">>
LowerCase == <<"a","b","c","d","e","f","g","h","i","j","k","l","m",
               "n","o","p","q","r","s","t","u","v","w","x","y","z">>

LowerChar(c) ==
    IF \E i \in 1..Len(UpperCase) : UpperCase[i] = c
    THEN LowerCase[CHOOSE i \in 1..Len(UpperCase) : UpperCase[i] = c]
    ELSE c

UpperChar(c) ==
    IF \E i \in 1..Len(LowerCase) : LowerCase[i] = c
    THEN UpperCase[CHOOSE i \in 1..Len(LowerCase) : LowerCase[i] = c]
    ELSE c

\* s.lower()
Lower(s) == [i \in 1..Len(s) |-> LowerChar(s[i])]

\* sub in s
Contains(s, sub) ==
    \E i \in 1..(Len(s) - Len(sub) + 1) : SubSeq(s, i, i + Len(sub) - 1) = sub

\* s[:n + 1]
Prefix_through(s, n) == SubSeq(s, 1, Min(n + 1, Len(s)))

\* s[:n]
Prefix(s, n) == SubSeq(s, 1, Min(n, Len(s)))

\* s.capitalize(): first character upper-cased, the rest lower-cased
Capitalize(s) ==
    [i \in 1..Len(s) |-> IF i = 1 THEN UpperChar(s[i]) ELSE LowerChar(s[i])]

Tok401 == <<"4","0","1">>
TokUnauthorized == <<"u","n","a","u","t","h","o","r","i","z","e","d">>
Tok404 == <<"4","0","4">>
TokNotFound == <<"n","o","t"," ","f","o","u","n","d">>
TokRateLimit == <<"r","a","t","e"," ","l","i","m","i","t">>
Tok429 == <<"4","2","9">>
TokTimeout == <<"t","i","m","e","o","u","t">>

(***************************************************************************)
(* Configuration: decouple's config(name), called without a default.  An   *)
(* undefined option raises UndefinedValueError, whose text is              *)
(* "<name> not found. Declare it as envvar or define a default value."     *)
(***************************************************************************)
KeyValues == {[t |-> "undefined"], [t |-> "str", v |-> ""], [t |-> "str", v |-> "key"]}

Environments == [NVIDIA_API_KEY : KeyValues, WEATHER_API_KEY : KeyValues]

NvidiaKeyUndefined == <<"N","V","I","D","I","A","_","A","P","I","_","K","E","Y"," ","n","o","t"," ","f","o","u","n","d","."," ","D","e","c","l","a","r","e"," ","i","t"," ","a","s"," ","e","n","v","v","a","r"," ","o","r"," ","d","e","f","i","n","e"," ","a"," ","d","e","f","a","u","l","t"," ","v","a","l","u","e",".">>

WeatherKeyUndefined == <<"W","E","A","T","H","E","R","_","A","P","I","_","K","E","Y"," ","n","o","t"," ","f","o","u","n","d","."," ","D","e","c","l","a","r","e"," ","i","t"," ","a","s"," ","e","n","v","v","a","r"," ","o","r"," ","d","e","f","i","n","e"," ","a"," ","d","e","f","a","u","l","t"," ","v","a","l","u","e",".">>

config(e, name) ==
    IF e[name].t = "undefined"
    THEN Raise(Exc("UndefinedValueError",
                   IF name = "NVIDIA_API_KEY" THEN NvidiaKeyUndefined
                                              ELSE WeatherKeyUndefined))
    ELSE Return(e[name].v)

\* `not key`: the empty string is falsy
IsEmptyKey(key) == key = ""

(***************************************************************************)
(* Text built by the code.  A string is a record with t = "str"; kind      *)
(* names the literal or f-string that produced it.                         *)
(***************************************************************************)
Str(kind) == [t |-> "str", kind |-> kind]

IsStr(v) == v.t = "str"

\* a str whose characters the model keeps: a message, the name of a place
Text(chars) == [t |-> "str", chars |-> chars]

\* line 23
WeatherKeyNotFound == Str("Weather API key not found. Please add WEATHER_API_KEY to .env file")
\* line 84
CityNotFound(city_name) ==
    [t |-> "str", kind |-> "City '{city_name}' not found. Please check the spelling or try a nearby major city.",
     city_name |-> city_name]
\* line 87
StatusError(status_code) ==
    [t |-> "str", kind |-> "Could not fetch weather data. Error code: {status_code}",
     status_code |-> status_code]
\* line 90
WeatherTimeout == Str("Weather API request timed out. Please try again.")
\* line 92
WeatherConnectionError(detail) ==
    [t |-> "str", kind |-> "Error connecting to Weather API: {str(e)}", detail |-> detail]
\* line 94
WeatherError(detail) ==
    [t |-> "str", kind |-> "Error getting weather: {str(e)}", detail |-> detail]

(***************************************************************************)
(* What the weather and geocoding services can answer.                     *)
(***************************************************************************)
Response(status_code, json) ==
    [t |-> "response", status_code |-> status_code, json |-> json]

EJson == <<"E","x","p","e","c","t","i","n","g"," ","v","a","l","u","e",":"," ","l","i","n","e"," ","1"," ","c","o","l","u","m","n"," ","1"," ","(","c","h","a","r"," ","0",")">>
ERead == <<"R","e","a","d"," ","t","i","m","e","d"," ","o","u","t",".">>
ERefused == <<"C","o","n","n","e","c","t","i","o","n"," ","r","e","f","u","s","e","d">>

\* requests.get raising: a timeout or another transport error
TransportFailures == {Raise(Exc("Timeout", ERead)), Raise(Exc("ConnectionError", ERefused))}

\* response.json() on a body that is not JSON raises
\* requests.exceptions.JSONDecodeError (a RequestException) in requests >= 2.27
\* and a plain ValueError subclass in older releases
JsonFailures == {Raise(Exc("RequestsJSONDecodeError", EJson)), Raise(Exc("JSONDecodeError", EJson))}

Statuses == {HTTP_OK, 204, 401, HTTP_NOT_FOUND, 500}

\* the five values get_weather reads, in the order it reads them
WeatherFields == <<"temp", "feels_like", "humidity", "description", "speed">>
AllWeatherFields == {WeatherFields[i] : i \in 1..Len(WeatherFields)}

Descriptions == << <<"c","l","e","a","r"," ","S","k","y">>, <<"R","A","I","N">> >>

\* a JSON object of the weather endpoint; has names the values present in it
WeatherBody(has, v) ==
    [t |-> "dict", has |-> has,
     temp |-> v, feels_like |-> v + 10, humidity |-> v + 50,
     description |-> Descriptions[(v % Len(Descriptions)) + 1],
     speed |-> v + 100]

CompleteBodies == {WeatherBody(AllWeatherFields, v) : v \in 0..MaxReading}
IncompleteBodies == {WeatherBody(AllWeatherFields \ {f}, 0) : f \in AllWeatherFields}
ErrorBody == WeatherBody({}, 0)

WeatherOutcomes ==
    TransportFailures
    \cup {Response(HTTP_OK, Return(b)) : b \in CompleteBodies \cup IncompleteBodies}
    \cup {Response(HTTP_OK, j) : j \in JsonFailures}
    \cup {Response(s, Return(ErrorBody)) : s \in Statuses \ {HTTP_OK}}

Cities == {Text(<<"L","o","n","d","o","n">>),
           Text(<<"P","u","l","l","u","v","a","z","h","y">>)}

\* one element of the geocoding answer
GeoItem(has, n) ==
    [has |-> has, lat |-> n, lon |-> n + 70,
     name |-> IF n = 0 THEN Text(<<"P","e","r","u","m","b","a","v","o","o","r">>)
                       ELSE Text(<<"K","o","c","h","i">>)]
GeoKeys == {"lat", "lon", "name"}
FirstGeoItems == {GeoItem(GeoKeys, 0)} \cup {GeoItem(GeoKeys \ {k}, 0) : k \in GeoKeys}
RestGeoItem == GeoItem(GeoKeys, 1)

\* the answers of the geocoding endpoint: a JSON array of up to MaxResults
\* elements, or a JSON object
GeoLists ==
    {[t |-> "list", items |-> <<>>]}
    \cup {[t |-> "list", items |-> [i \in 1..n |-> IF i = 1 THEN first ELSE RestGeoItem]] :
            first \in FirstGeoItems, n \in 1..MaxResults}
GeoObject == [t |-> "dict", items |-> <<>>]

GeoOutcomes ==
    TransportFailures
    \cup {Response(HTTP_OK, Return(d)) : d \in GeoLists \cup {GeoObject}}
    \cup {Response(HTTP_OK, j) : j \in JsonFailures}
    \cup {Response(s, Return(GeoObject)) : s \in Statuses \ {HTTP_OK}}

(***************************************************************************)
(* get_weather and get_coordinates, cut at their network calls.  A stage   *)
(* answers with what the function does next:                               *)
(*   [do |-> "return", value]   the function returns value                 *)
(*   [do |-> "call", request]   it issues a network call                   *)
(*   [do |-> "get_coordinates"] get_weather calls get_coordinates          *)
(***************************************************************************)
DoReturn(value) == [do |-> "return", value |-> value]
\* a step that returns value from within a branch of the router
DoReturnIn(branch, value) == [do |-> "return", value |-> value, branch |-> branch]
DoCall(request) == [do |-> "call", request |-> request]

\* KeyError's text is the repr of the key
KeyErrorDetail(f) ==
    CASE f = "temp" -> <<"'","t","e","m","p","'">>
      [] f = "feels_like" -> <<"'","f","e","e","l","s","_","l","i","k","e","'">>
      [] f = "humidity" -> <<"'","h","u","m","i","d","i","t","y","'">>
      [] f = "description" -> <<"'","d","e","s","c","r","i","p","t","i","o","n","'">>
      [] f = "speed" -> <<"'","s","p","e","e","d","'">>
      [] f = "lat" -> <<"'","l","a","t","'">>
      [] f = "lon" -> <<"'","l","o","n","'">>
      [] OTHER -> <<"0">>

\* the except clauses with RequestException tested before Timeout
get_weather_except_reordered(e) ==
    IF IsRequestException(e) THEN WeatherConnectionError(e.detail)
    ELSE IF IsTimeout(e) THEN WeatherTimeout
    ELSE WeatherError(e.detail)

\* the except clauses of get_weather
get_weather_except(e) ==
    IF IsTimeout(e) THEN WeatherTimeout
    ELSE IF IsRequestException(e) THEN WeatherConnectionError(e.detail)
    ELSE WeatherError(e.detail)

\* reading the values with a default (data.get) in place of data[...]
FormatWeather_defaults(name, data) ==
    Return([t |-> "str", kind |-> "Weather in {name}: ...",
            city |-> name,
            temperature |-> data.temp,
            feels_like |-> data.feels_like,
            condition |-> Capitalize(data.description),
            humidity |-> data.humidity,
            wind_speed |-> data.speed])

\* reading the five values and formatting the report; the first value that is
\* absent raises KeyError
FormatWeather(name, data) ==
    LET absent == {i \in 1..Len(WeatherFields) : WeatherFields[i] \notin data.has}
    IN  IF absent # {}
        THEN Raise(Exc("KeyError",
                       KeyErrorDetail(WeatherFields[CHOOSE i \in absent : \A j \in absent : i <= j])))
        ELSE Return([t |-> "str", kind |-> "Weather in {name}: ...",
                     city |-> name,
                     temperature |-> data.temp,
                     feels_like |-> data.feels_like,
                     condition |-> Capitalize(data.description),
                     humidity |-> data.humidity,
                     wind_speed |-> data.speed])

IsReport(v) == v.t = "str" /\ v.kind = "Weather in {name}: ..."

\* data = response.json() followed by the report
ParseWeather(name, resp) ==
    IF resp.json.t = "raise" THEN resp.json ELSE FormatWeather(name, resp.json.v)

StatusOK(resp) == resp.status_code = HTTP_OK
\* every status but 200 taken for "not found"
StatusNotFound_anyFailure(resp) == resp.status_code # HTTP_OK

StatusNotFound(resp) == resp.status_code = HTTP_NOT_FOUND

\* get_weather_begin without the `if not weather_api_key` test
get_weather_begin_unchecked(e, city_name) ==
    LET k == config(e, "WEATHER_API_KEY")
    IN  IF k.t = "raise" THEN DoReturn(get_weather_except(k.exc))
        ELSE DoCall([api |-> "weather_by_name", q |-> city_name, appid |-> k.v,
                     units |-> "metric", timeout |-> 60])

get_weather_begin(e, city_name) ==
    LET k == config(e, "WEATHER_API_KEY")
    IN  IF k.t = "raise" THEN DoReturn(get_weather_except(k.exc))
        ELSE IF IsEmptyKey(k.v) THEN DoReturn(WeatherKeyNotFound)
        ELSE DoCall([api |-> "weather_by_name", q |-> city_name, appid |-> k.v,
                     units |-> "metric", timeout |-> 60])

\* the geocoding fallback taken on a raised error as well
get_weather_on_response_fallback(city_name, outcome) ==
    IF outcome.t = "raise" THEN [do |-> "get_coordinates"]
    ELSE IF outcome.status_code = HTTP_OK
         THEN LET r == ParseWeather(city_name, outcome)
              IN  IF r.t = "raise" THEN DoReturn(get_weather_except(r.exc))
                  ELSE DoReturn(r.v)
    ELSE IF outcome.status_code = HTTP_NOT_FOUND THEN [do |-> "get_coordinates"]
    ELSE DoReturn(StatusError(outcome.status_code))

get_weather_on_response(city_name, outcome) ==
    IF outcome.t = "raise" THEN DoReturn(get_weather_except(outcome.exc))
    ELSE IF StatusOK(outcome)
         THEN LET r == ParseWeather(city_name, outcome)
              IN  IF r.t = "raise" THEN DoReturn(get_weather_except(r.exc))
                  ELSE DoReturn(r.v)
    ELSE IF StatusNotFound(outcome) THEN [do |-> "get_coordinates"]
    ELSE DoReturn(StatusError(outcome.status_code))

get_coordinates_begin(e, city_name) ==
    LET k == config(e, "WEATHER_API_KEY")
    IN  IF k.t = "raise" THEN DoReturn(None)
        ELSE DoCall([api |-> "geocoding", q |-> city_name, limit |-> 1, appid |-> k.v,
                     timeout |-> 10])

\* the body of get_coordinates' try block after requests.get
get_coordinates_try(city_name, outcome) ==
    IF outcome.t = "raise" THEN outcome
    ELSE IF ~StatusOK(outcome) THEN Return(None)
    ELSE IF outcome.json.t = "raise" THEN outcome.json
    ELSE LET data == outcome.json.v
         IN  IF data.t = "dict" THEN Raise(Exc("KeyError", KeyErrorDetail("0")))
             ELSE IF Len(data.items) = 0 THEN Return(None)
             ELSE LET first == data.items[1]
                  IN  IF "lat" \notin first.has THEN Raise(Exc("KeyError", KeyErrorDetail("lat")))
                      ELSE IF "lon" \notin first.has THEN Raise(Exc("KeyError", KeyErrorDetail("lon")))
                      ELSE Return([t |-> "coords", lat |-> first.lat, lon |-> first.lon,
                                   name |-> IF "name" \in first.has THEN first.name
                                                                    ELSE city_name])

\* except requests.exceptions.RequestException in place of except Exception
get_coordinates_end_narrow(city_name, outcome) ==
    LET r == get_coordinates_try(city_name, outcome)
    IN  IF r.t = "raise" /\ IsRequestException(r.exc) THEN Return(None) ELSE r

\* except Exception: return None
get_coordinates_end(city_name, outcome) ==
    LET r == get_coordinates_try(city_name, outcome)
    IN  IF r.t = "raise" THEN Return(None) ELSE r

\* if coords: ... the lookup by coordinates; otherwise line 84
get_weather_on_coords(e, city_name, c) ==
    IF c = None THEN DoReturn(CityNotFound(city_name))
    ELSE DoCall([api |-> "weather_by_coord", lat |-> c.lat, lon |-> c.lon,
                 appid |-> e.WEATHER_API_KEY.v, units |-> "metric", timeout |-> 60])

\* the report of the lookup by coordinates named after city_name
get_weather_on_coord_response_queried(city_name, c, outcome) ==
    IF outcome.t = "raise" THEN DoReturn(get_weather_except(outcome.exc))
    ELSE IF outcome.status_code = HTTP_OK
         THEN LET r == ParseWeather(city_name, outcome)
              IN  IF r.t = "raise" THEN DoReturn(get_weather_except(r.exc))
                  ELSE DoReturn(r.v)
    ELSE DoReturn(CityNotFound(city_name))

get_weather_on_coord_response(city_name, c, outcome) ==
    IF outcome.t = "raise" THEN DoReturn(get_weather_except(outcome.exc))
    ELSE IF StatusOK(outcome)
         THEN LET r == ParseWeather(c.name, outcome)
              IN  IF r.t = "raise" THEN DoReturn(get_weather_except(r.exc))
                  ELSE DoReturn(r.v)
    ELSE DoReturn(CityNotFound(city_name))

(***************************************************************************)
(* get_nvidia_response: the sentences it returns, what the completion      *)
(* service can answer, and its stages.                                     *)
(***************************************************************************)
\* line 145
NvidiaKeyNotFound == Str("NVIDIA API key not found. Please add NVIDIA_API_KEY to .env file!")
\* line 252
InvalidKeySentence == Str("API Key Error: Your NVIDIA API key is invalid.")
\* line 254
ModelNotFoundSentence == Str("Model not found. Please check the model name.")
\* line 256
RateLimitSentence == Str("Too many requests! Please wait 30 seconds and try again.")
\* line 258
ModelTimeoutSentence == Str("Request timed out. Please try a shorter message.")
\* line 260
GenericErrorSentence(shown) ==
    [t |-> "str", kind |-> "Error: {str(e)[:150]}. Please check your API key and internet connection.",
     shown |-> shown]

E401 == <<"E","r","r","o","r"," ","c","o","d","e",":"," ","4","0","1">>
EUnauth == <<"U","n","a","u","t","h","o","r","i","z","e","d">>
E404T == <<"4","0","4"," ","T","i","m","e","o","u","t">>
ERate == <<"R","a","t","e"," ","l","i","m","i","t"," ","e","x","c","e","e","d","e","d">>
E429 == <<"E","r","r","o","r"," ","c","o","d","e",":"," ","4","2","9">>
ETimedOut == <<"R","e","q","u","e","s","t"," ","t","i","m","e","d"," ","o","u","t",".">>
ENotFound == <<"M","o","d","e","l"," ","n","o","t"," ","f","o","u","n","d">>
EReadTimeout == <<"R","e","a","d"," ","t","i","m","e","o","u","t">>
EConn == <<"C","o","n","n","e","c","t","i","o","n"," ","e","r","r","o","r",".">>
ELong == [i \in 1..(MaxErrorChars + 10) |-> IF i <= MaxErrorChars THEN "y" ELSE "z"]
EJson401 == <<"E","x","t","r","a"," ","d","a","t","a",":"," ","l","i","n","e"," ","1"," ","c","o","l","u","m","n"," ","4","0","2"," ","(","c","h","a","r"," ","4","0","1",")">>
EAttr == <<"'","l","i","s","t","'"," ","o","b","j","e","c","t"," ","h","a","s"," ","n","o"," ","a","t","t","r","i","b","u","t","e"," ","'","g","e","t","'">>

\* the details of the errors the completion client raises
CompletionErrors ==
    {E401, EUnauth, E404T, ENotFound, ERate, E429, EReadTimeout, ETimedOut, EConn, ELong}

UserMessages ==
    {Text(<<"H","e","l","l","o">>),
     Text(<<"W","e","a","t","h","e","r"," ","i","n"," ","L","o","n","d","o","n">>)}

ModelTexts == {[t |-> "str", kind |-> "model text", n |-> n] : n \in 1..2}

\* tool_call.function.arguments: a JSON text, named by what it encodes
ToolArguments ==
    {[shape |-> "object", has |-> {"location"}, location |-> c] : c \in Cities}
    \cup {[shape |-> "object", has |-> {}, location |-> Text(<<>>)],
          [shape |-> "array", has |-> {}, location |-> Text(<<>>)]}
    \cup {[shape |-> "invalid", has |-> {}, location |-> Text(<<>>), detail |-> d] : d \in {EJson, EJson401}}

\* json.loads
json_loads(arguments) ==
    CASE arguments.shape = "object" ->
            Return([t |-> "dict", has |-> arguments.has, location |-> arguments.location])
      [] arguments.shape = "array" -> Return([t |-> "list"])
      [] OTHER -> Raise(Exc("JSONDecodeError", arguments.detail))

ToolNames == {"get_weather", "get_time"}

FirstToolCalls ==
    {[id |-> "call_1", name |-> n, arguments |-> a] : n \in ToolNames, a \in ToolArguments}
RestToolCall ==
    [id |-> "call_2", name |-> "get_weather",
     arguments |-> [shape |-> "object", has |-> {"location"}, location |-> Text(<<"P","a","r","i","s">>)]]

\* message.tool_calls: None, or a list of up to MaxToolCalls invocations
ToolCallLists ==
    {<<>>} \cup {[i \in 1..n |-> IF i = 1 THEN first ELSE RestToolCall] :
                    first \in FirstToolCalls, n \in 1..MaxToolCalls}

Message(content, tool_calls) ==
    [t |-> "message", content |-> content, tool_calls |-> tool_calls]

\* a completion: response.choices holds the messages of its choices
Completion(choices) == [t |-> "completion", choices |-> choices]

EIndex == <<"l","i","s","t"," ","i","n","d","e","x"," ","o","u","t"," ","o","f"," ","r","a","n","g","e">>

\* response.choices[0].message
FirstChoice(outcome) ==
    IF outcome.t = "raise" THEN outcome
    ELSE IF Len(outcome.v.choices) = 0 THEN Raise(Exc("IndexError", EIndex))
    ELSE Return(outcome.v.choices[1])

\* the answers to the first completion call: an error of the client, or a
\* completion with no choice or with one
FirstOutcomes ==
    {Raise(Exc("APIError", d)) : d \in CompletionErrors}
    \cup {Return(Completion(<<>>))}
    \cup {Return(Completion(<<Message(c, None)>>)) : c \in ModelTexts \cup {None}}
    \cup {Return(Completion(<<Message(c, [t |-> "list", items |-> l])>>)) :
            c \in {None, CHOOSE x \in ModelTexts : x.n = 1}, l \in ToolCallLists}

\* the answers to the second completion call
SecondOutcomes ==
    {Raise(Exc("APIError", d)) : d \in CompletionErrors}
    \cup {Return(Completion(<<>>))}
    \cup {Return(Completion(<<Message(c, None)>>)) : c \in ModelTexts \cup {None}}

\* an except clause that tests for the timeout before the other tokens
get_nvidia_response_except_timeout_first(e) ==
    LET error_msg == Lower(e.detail)
    IN  IF Contains(error_msg, TokTimeout)
        THEN ModelTimeoutSentence
        ELSE IF Contains(error_msg, Tok401) \/ Contains(error_msg, TokUnauthorized)
        THEN InvalidKeySentence
        ELSE IF Contains(error_msg, Tok404) \/ Contains(error_msg, TokNotFound)
        THEN ModelNotFoundSentence
        ELSE IF Contains(error_msg, TokRateLimit) \/ Contains(e.detail, Tok429)
        THEN RateLimitSentence
        ELSE GenericErrorSentence(Prefix(e.detail, MaxErrorChars))

\* the except clause of get_nvidia_response
get_nvidia_response_except(e) ==
    LET error_msg == Lower(e.detail)
    IN  IF Contains(error_msg, Tok401) \/ Contains(error_msg, TokUnauthorized)
        THEN InvalidKeySentence
        ELSE IF Contains(error_msg, Tok404) \/ Contains(error_msg, TokNotFound)
        THEN ModelNotFoundSentence
        ELSE IF Contains(error_msg, TokRateLimit) \/ Contains(e.detail, Tok429)
        THEN RateLimitSentence
        ELSE IF Contains(error_msg, TokTimeout)
        THEN ModelTimeoutSentence
        ELSE GenericErrorSentence(Prefix(e.detail, MaxErrorChars))

SystemMessage == [role |-> "system", content |-> "system_prompt"]
UserMessage(user_message) == [role |-> "user", content |-> user_message]

\* the first completion request
FirstRequest(user_message) ==
    [api |-> "completion",
     messages |-> <<SystemMessage, UserMessage(user_message)>>,
     tools |-> {"get_weather"}, tool_choice |-> "auto"]

\* a tool-role message that passes on a report and replaces a failure text
ToolMessage_summarised(tc, wd) ==
    [role |-> "tool", tool_call_id |-> tc.id,
     content |-> IF IsReport(wd) THEN wd ELSE Str("Weather data unavailable")]

\* the tool-role message of the second request
ToolMessage(tc, wd) ==
    [role |-> "tool", tool_call_id |-> tc.id, content |-> wd]

\* the second completion request
SecondRequest(um, tc, wd) ==
    [api |-> "completion",
     messages |-> <<SystemMessage, UserMessage(um),
                    [role |-> "assistant", content |-> None, tool_calls |-> <<tc>>],
                    ToolMessage(tc, wd)>>,
     tools |-> {}, tool_choice |-> "none"]

get_nvidia_response_begin(e, um) ==
    LET k == config(e, "NVIDIA_API_KEY")
    IN  IF k.t = "raise" THEN DoReturn(get_nvidia_response_except(k.exc))
        ELSE IF IsEmptyKey(k.v) THEN DoReturn(NvidiaKeyNotFound)
        ELSE DoCall(FirstRequest(um))

\* `if message.tool_calls:`
HasToolCalls(msg) == msg.tool_calls # None /\ Len(msg.tool_calls.items) > 0

\* message.tool_calls[-1] in place of message.tool_calls[0]
SelectToolCall_last(msg) == msg.tool_calls.items[Len(msg.tool_calls.items)]

\* tool_call = message.tool_calls[0]
SelectToolCall(msg) == msg.tool_calls.items[1]

\* function_args.get("location", ""); a list has no get
GetLocation(function_args) ==
    IF function_args.t # "dict" THEN Raise(Exc("AttributeError", EAttr))
    ELSE Return(IF "location" \in function_args.has THEN function_args.location
                                                   ELSE Text(<<>>))

get_nvidia_response_on_first(outcome) ==
    IF FirstChoice(outcome).t = "raise"
    THEN DoReturn(get_nvidia_response_except(FirstChoice(outcome).exc))
    ELSE LET msg == FirstChoice(outcome).v
         IN  IF HasToolCalls(msg)
             THEN LET tc == SelectToolCall(msg)
                      function_args == json_loads(tc.arguments)
                  IN  IF function_args.t = "raise"
                      THEN DoReturn(get_nvidia_response_except(function_args.exc))
                      ELSE IF tc.name = "get_weather"
                      THEN LET location == GetLocation(function_args.v)
                           IN  IF location.t = "raise"
                               THEN DoReturn(get_nvidia_response_except(location.exc))
                               ELSE [do |-> "get_weather", location |-> location.v,
                                     tool_call |-> tc, branch |-> "weather"]
                      ELSE DoReturnIn("chat", msg.content)
             ELSE DoReturnIn("chat", msg.content)

get_nvidia_response_on_weather(um, tc, wd) == DoCall(SecondRequest(um, tc, wd))

get_nvidia_response_on_second(outcome) ==
    IF FirstChoice(outcome).t = "raise"
    THEN DoReturn(get_nvidia_response_except(FirstChoice(outcome).exc))
    ELSE DoReturn(FirstChoice(outcome).v.content)

(***************************************************************************)
(* The keyword-heuristic variant of the module (lines 262-589): its        *)
(* get_weather and get_coordinates are those above; extract_city_name and  *)
(* get_nvidia_response differ.  A str that the code inspects and that may  *)
(* also be None is a Text.                                                 *)
(***************************************************************************)
\* `if value:` for a value that is a str or None
Truthy(v) == v # None /\ Len(v.chars) > 0

\* the whitespace of str.strip, str.split and \s
IsSpace(c) == c \in {" ", "\t", "\n"}

IsLetter(c) == LowerChar(c) # c \/ UpperChar(c) # c

\* [A-Za-z\s]
CityChar(c) == IsLetter(c) \/ IsSpace(c)

\* s.strip()
Strip(s) ==
    LET inked == {i \in 1..Len(s) : ~IsSpace(s[i])}
    IN  IF inked = {} THEN <<>>
        ELSE SubSeq(s, CHOOSE i \in inked : \A j \in inked : i <= j,
                       CHOOSE i \in inked : \A j \in inked : i >= j)

\* s.split(): the whitespace-delimited tokens of s, in order
Split(s) ==
    LET starts == {i \in 1..Len(s) : ~IsSpace(s[i]) /\ (i = 1 \/ IsSpace(s[i - 1]))}
        start(n) == CHOOSE i \in starts : Cardinality({j \in starts : j < i}) = n - 1
        end(i) == CHOOSE j \in i..Len(s) :
                      /\ \A k \in i..j : ~IsSpace(s[k])
                      /\ (j = Len(s) \/ IsSpace(s[j + 1]))
    IN  [n \in 1..Cardinality(starts) |-> SubSeq(s, start(n), end(start(n)))]

\* s.title(): a letter is upper-cased after a non-letter and lower-cased
\* after a letter
Title(s) ==
    [i \in 1..Len(s) |-> IF i = 1 \/ ~IsLetter(s[i - 1]) THEN UpperChar(s[i])
                                                       ELSE LowerChar(s[i])]

\* a phrase pattern: head ([A-Za-z\s]+) when gap is FALSE, and
\* head.*tail([A-Za-z\s]+) when gap is TRUE
Pattern(head, gap, tail) == [head |-> head, gap |-> gap, tail |-> tail]

\* lines 416-427
Patterns ==
    <<Pattern(<<"w","e","a","t","h","e","r"," ","i","n"," ">>, FALSE, <<>>),
      Pattern(<<"t","e","m","p","e","r","a","t","u","r","e"," ","i","n"," ">>, FALSE, <<>>),
      Pattern(<<"h","u","m","i","d","i","t","y"," ","i","n"," ">>, FALSE, <<>>),
      Pattern(<<"r","a","i","n">>, TRUE, <<"i","n"," ">>),
      Pattern(<<"h","o","t">>, TRUE, <<"i","n"," ">>),
      Pattern(<<"c","o","l","d">>, TRUE, <<"i","n"," ">>),
      Pattern(<<"f","o","r","e","c","a","s","t"," ","f","o","r"," ">>, FALSE, <<>>),
      Pattern(<<"c","l","i","m","a","t","e"," ","i","n"," ">>, FALSE, <<>>),
      Pattern(<<"w","e","a","t","h","e","r"," ","o","f"," ">>, FALSE, <<>>),
      Pattern(<<"t","e","m","p","e","r","a","t","u","r","e"," ","o","f"," ">>, FALSE, <<>>)>>

\* the literal lit stands in s at position i
StartsAt(s, i, lit) ==
    i + Len(lit) - 1 <= Len(s) /\ SubSeq(s, i, i + Len(lit) - 1) = lit

\* the positions where the group of p can begin in a match of p that begins
\* at position i of s
GroupStarts(p, s, i) ==
    IF ~StartsAt(s, i, p.head) THEN {}
    ELSE IF ~p.gap
    THEN {c \in {i + Len(p.head)} : c <= Len(s) /\ CityChar(s[c])}
    ELSE {c \in 1..Len(s) :
            /\ CityChar(s[c])
            /\ c - Len(p.tail) >= i + Len(p.head)
            /\ StartsAt(s, c - Len(p.tail), p.tail)
            /\ \A k \in (i + Len(p.head))..(c - Len(p.tail) - 1) : s[k] # "\n"}

\* re.search(p, s): the leftmost match; .* and the group are greedy.  The
\* outcome is None or a match with its group(1)
re_search(p, s) ==
    LET begins == {i \in 1..Len(s) : GroupStarts(p, s, i) # {}}
    IN  IF begins = {} THEN None
        ELSE LET i == CHOOSE b \in begins : \A o \in begins : b <= o
                 c == CHOOSE g \in GroupStarts(p, s, i) :
                          \A o \in GroupStarts(p, s, i) : g >= o
                 e == CHOOSE j \in c..Len(s) :
                          /\ \A k \in c..j : CityChar(s[k])
                          /\ (j = Len(s) \/ ~CityChar(s[j + 1]))
             IN  [t |-> "match", group1 |-> SubSeq(s, c, e)]

\* the loop over the patterns, tried from the last one to the first
TryPatterns_backwards(message_lower, n) ==
    LET matching == {k \in n..Len(Patterns) :
                        re_search(Patterns[k], message_lower) # None}
    IN  IF matching = {} THEN None
        ELSE re_search(Patterns[CHOOSE k \in matching : \A o \in matching : k >= o],
                       message_lower)

\* `for pattern in patterns:` from the n-th pattern on: the first match, or
\* None when the loop ends without one
RECURSIVE TryPatterns(_, _)
TryPatterns(message_lower, n) ==
    IF n > Len(Patterns) THEN None
    ELSE LET match == re_search(Patterns[n], message_lower)
         IN  IF match # None THEN match ELSE TryPatterns(message_lower, n + 1)

\* lines 440-444: the last token of a message of two tokens or more
LastToken(user_message) ==
    LET words == Split(user_message.chars)
    IN  IF Len(words) >= 2 THEN Text(Title(words[Len(words)])) ELSE None

\* lines 406-444
extract_city_name(user_message) ==
    LET message_lower == Lower(user_message.chars)
        match == TryPatterns(message_lower, 1)
    IN  IF match # None THEN Text(Title(Strip(match.group1)))
        ELSE LastToken(user_message)

\* lines 518-527
weather_keywords ==
    {<<"w","e","a","t","h","e","r">>,
     <<"t","e","m","p","e","r","a","t","u","r","e">>,
     <<"f","o","r","e","c","a","s","t">>,
     <<"c","l","i","m","a","t","e">>,
     <<"r","a","i","n">>,
     <<"r","a","i","n","i","n","g">>,
     <<"r","a","i","n","y">>,
     <<"r","a","i","n","f","a","l","l">>,
     <<"h","u","m","i","d","i","t","y">>,
     <<"h","u","m","i","d">>,
     <<"h","o","t">>,
     <<"c","o","l","d">>,
     <<"w","a","r","m">>,
     <<"c","o","o","l">>,
     <<"s","u","n","n","y">>,
     <<"c","l","o","u","d","y">>,
     <<"c","l","o","u","d">>,
     <<"c","l","o","u","d","s">>,
     <<"w","i","n","d">>,
     <<"w","i","n","d","y">>,
     <<"s","t","o","r","m">>,
     <<"s","t","o","r","m","y">>,
     <<"s","n","o","w">>,
     <<"s","n","o","w","i","n","g">>,
     <<"s","n","o","w","y">>}

\* a keyword test on the message as typed, letter case and all
is_weather_question_as_typed(user_message) ==
    \E keyword \in weather_keywords : Contains(user_message.chars, keyword)

\* lines 528-530
is_weather_question(user_message) ==
    \E keyword \in weather_keywords : Contains(Lower(user_message.chars), keyword)

\* line 543
SpecifyCityPrompt == Str("Please specify a city name. For example: 'weather in London'")

\* config(name, default='')
config_default(e, name, default) ==
    IF e[name].t = "undefined" THEN default ELSE e[name].v

\* lines 558-562: the messages handed to llm.invoke
KeywordRequest(user_message) ==
    [api |-> "completion",
     messages |-> <<[role |-> "system", content |-> "helpful_assistant_prompt"],
                    UserMessage(user_message)>>,
     tools |-> {}, tool_choice |-> "none"]

\* a router that hands a weather question without a city on to llm.invoke
get_nvidia_response_keyword_begin_handover(e, user_message) ==
    LET nvidia_api_key == config_default(e, "NVIDIA_API_KEY", "")
    IN  IF IsEmptyKey(nvidia_api_key) THEN DoReturn(NvidiaKeyNotFound)
        ELSE IF is_weather_question(user_message)
        THEN LET city == extract_city_name(user_message)
             IN  IF Truthy(city)
                 THEN [do |-> "get_weather", location |-> city, branch |-> "weather"]
                 ELSE [do |-> "call", request |-> KeywordRequest(user_message),
                       branch |-> "weather"]
        ELSE [do |-> "call", request |-> KeywordRequest(user_message), branch |-> "chat"]

\* lines 506-564: up to the return, the weather lookup or llm.invoke
get_nvidia_response_keyword_begin(e, user_message) ==
    LET nvidia_api_key == config_default(e, "NVIDIA_API_KEY", "")
    IN  IF IsEmptyKey(nvidia_api_key) THEN DoReturn(NvidiaKeyNotFound)
        ELSE IF is_weather_question(user_message)
        THEN LET city == extract_city_name(user_message)
             IN  IF Truthy(city)
                 THEN [do |-> "get_weather", location |-> city, branch |-> "weather"]
                 ELSE DoReturnIn("weather", SpecifyCityPrompt)
        ELSE [do |-> "call", request |-> KeywordRequest(user_message), branch |-> "chat"]

\* what llm.invoke answers with: an AIMessage, or an object without content
AIMessage(content) == [t |-> "AIMessage", has |-> {"content"}, content |-> content]
BareResponse == [t |-> "object", has |-> {}]

\* the answers to llm.invoke
InvokeOutcomes ==
    {Raise(Exc("APIError", d)) : d \in CompletionErrors}
    \cup {Return(AIMessage(c)) : c \in ModelTexts}
    \cup {Return(BareResponse)}

\* lines 564-589: from the answer of llm.invoke to the return
get_nvidia_response_keyword_on_invoke(outcome) ==
    IF outcome.t = "raise" THEN DoReturn(get_nvidia_response_except(outcome.exc))
    ELSE IF "content" \in outcome.v.has THEN DoReturn(outcome.v.content)
    ELSE DoReturn([t |-> "str", kind |-> "str(response)", response |-> outcome.v])

\* the messages the model sends through the keyword-heuristic variant
MsgWeatherInLondon == Text(<<"w","e","a","t","h","e","r"," ","i","n"," ","L","o","n","d","o","n">>)
MsgTemperatureInNewYork == Text(<<"W","h","a","t","'","s"," ","t","h","e"," ","t","e","m","p","e","r","a","t","u","r","e"," ","i","n"," ","N","e","w"," ","Y","o","r","k","?">>)
MsgWeather == Text(<<"w","e","a","t","h","e","r">>)
MsgCheckParis == Text(<<"c","h","e","c","k"," ","P","a","r","i","s">>)
MsgHiThere == Text(<<"h","i"," ","t","h","e","r","e">>)
MsgRainingInParis == Text(<<"i","s"," ","i","t"," ","r","a","i","n","i","n","g"," ","i","n"," ","P","a","r","i","s">>)
MsgCheckTheWeather == Text(<<"c","h","e","c","k"," ","t","h","e"," ","w","e","a","t","h","e","r">>)
MsgTwoPhrases == Text(<<"t","e","m","p","e","r","a","t","u","r","e"," ","o","f"," ","R","o","m","e"," ","o","r"," ","w","e","a","t","h","e","r"," ","i","n"," ","O","s","l","o">>)
MsgWeatherInNowhere == Text(<<"W","e","a","t","h","e","r"," ","i","n"," "," ","?">>)
MsgHello == Text(<<"H","e","l","l","o">>)

KeywordMessages ==
    {MsgWeatherInLondon, MsgTemperatureInNewYork, MsgWeather, MsgCheckParis, MsgHiThere, MsgRainingInParis,
     MsgCheckTheWeather, MsgTwoPhrases, MsgWeatherInNowhere, MsgHello}

(***************************************************************************)
(* The chat endpoint, views.chat, cut at its call of get_nvidia_response   *)
(* and at ChatMessage.objects.create.                                      *)
(***************************************************************************)
\* JsonResponse(data, status=status)
JsonResponse(data, status) == [data |-> data, status |-> status]

\* lines 20-23
EmptyMessageResponse ==
    JsonResponse([error |-> Str("Please enter a message"), status |-> "error"], 400)
\* lines 45-48
InvalidJsonResponse ==
    JsonResponse([error |-> Str("Invalid JSON format"), status |-> "error"], 400)
\* lines 50-53
ServerErrorResponse(detail) ==
    JsonResponse([error |-> [t |-> "str", kind |-> "{str(e)}", detail |-> detail],
                  status |-> "error"], 500)
\* lines 39-42: status defaults to 200
SuccessResponse(bot_response) ==
    JsonResponse([response |-> bot_response, status |-> "success"], HTTP_OK)

EListGet == <<"'","l","i","s","t","'"," ","o","b","j","e","c","t"," ","h","a","s"," ","n","o"," ","a","t","t","r","i","b","u","t","e"," ","'","g","e","t","'">>
EIntStrip == <<"'","i","n","t","'"," ","o","b","j","e","c","t"," ","h","a","s"," ","n","o"," ","a","t","t","r","i","b","u","t","e"," ","'","s","t","r","i","p","'">>

\* the texts a client sends as the message
SentMessages ==
    {Text(<<"H","e","l","l","o">>),
     Text(<<" ","H","e","l","l","o"," ","\n">>),
     Text(<<"R","a","i","n","?">>),
     Text(<<>>),
     Text(<<" ","\t"," ">>)}

\* request.body, named by what it encodes: not JSON, a JSON array, a JSON
\* object without a message, with a text message or with a number as message
Bodies ==
    {[shape |-> "invalid"], [shape |-> "array"], [shape |-> "object", has |-> {}]}
    \cup {[shape |-> "object", has |-> {"message"}, message |-> m] :
            m \in SentMessages \cup {[t |-> "int", v |-> 5]}}

\* a step that ends the view with an HTTP response
DoRespond(http_response) == [do |-> "respond", response |-> http_response]

\* a view that hands the message to the core as it came
chat_begin_unstripped(body) ==
    IF body.shape = "invalid" THEN DoRespond(InvalidJsonResponse)
    ELSE IF body.shape = "array" THEN DoRespond(ServerErrorResponse(EListGet))
    ELSE LET message == IF "message" \in body.has THEN body.message ELSE Text(<<>>)
         IN  IF message.t # "str" THEN DoRespond(ServerErrorResponse(EIntStrip))
             ELSE IF Len(message.chars) = 0 THEN DoRespond(EmptyMessageResponse)
             ELSE [do |-> "get_nvidia_response", user_message |-> message]

\* lines 13-26 and 44-53: up to the response of a request that is turned
\* away, or to the call of the core
chat_begin(body) ==
    IF body.shape = "invalid" THEN DoRespond(InvalidJsonResponse)
    ELSE IF body.shape = "array" THEN DoRespond(ServerErrorResponse(EListGet))
    ELSE LET message == IF "message" \in body.has THEN body.message ELSE Text(<<>>)
         IN  IF message.t # "str" THEN DoRespond(ServerErrorResponse(EIntStrip))
             ELSE LET user_message == Text(Strip(message.chars))
                  IN  IF Len(user_message.chars) = 0 THEN DoRespond(EmptyMessageResponse)
                      ELSE [do |-> "get_nvidia_response", user_message |-> user_message]

\* ChatMessage.objects.create returns the row it stored, or raises
EDatabase == <<"d","a","t","a","b","a","s","e"," ","i","s"," ","l","o","c","k","e","d">>
ChatMessage(user_message, bot_response) ==
    [t |-> "ChatMessage", user_message |-> user_message, bot_response |-> bot_response]
CreateOutcomes == {"stored", "raised"}

\* a view that answers a failed save with a server error
chat_on_create_strict(bot_response, outcome) ==
    IF outcome = "raised" THEN DoRespond(ServerErrorResponse(EDatabase))
    ELSE DoRespond(SuccessResponse(bot_response))

\* lines 29-42: from the outcome of the save to the response
chat_on_create(bot_response, outcome) == DoRespond(SuccessResponse(bot_response))

\* the answers of the services while the core runs under the endpoint, or
\* next to another request
ServedFirstOutcomes ==
    {Raise(Exc("APIError", EConn)),
     Return(Completion(<<Message(CHOOSE x \in ModelTexts : x.n = 1, None)>>)),
     Return(Completion(<<Message(None, None)>>))}
    \cup {Return(Completion(<<Message(None, [t |-> "list", items |-> <<first>>])>>)) :
            first \in {f \in FirstToolCalls :
                          \/ f.name = "get_weather" /\ "location" \in f.arguments.has
                          \/ f.name = "get_weather" /\ f.arguments.shape = "invalid"
                                                    /\ f.arguments.detail = EJson401
                          \/ f.name = "get_time" /\ f.arguments.shape = "array"}}
ServedWeatherOutcomes ==
    {Raise(Exc("Timeout", ERead)),
     Response(HTTP_OK, Return(WeatherBody(AllWeatherFields, 0))),
     Response(HTTP_NOT_FOUND, Return(ErrorBody))}
ServedGeoOutcomes ==
    {Response(HTTP_OK, Return([t |-> "list", items |-> <<>>])),
     Response(HTTP_OK, Return([t |-> "list", items |-> <<GeoItem(GeoKeys, 0)>>]))}
ServedSecondOutcomes ==
    {Raise(Exc("APIError", E429)),
     Return(Completion(<<Message(CHOOSE x \in ModelTexts : x.n = 2, None)>>))}
ServedInvokeOutcomes ==
    {Raise(Exc("APIError", E404T)),
     Return(AIMessage(CHOOSE x \in ModelTexts : x.n = 1)),
     Return(BareResponse)}
ServedEnvironments ==
    {e \in Environments : e.WEATHER_API_KEY = [t |-> "str", v |-> "key"]
                          /\ e.NVIDIA_API_KEY.t = "str"}

(***************************************************************************)
(* The state.  Of one request:                                             *)
(*   entry          the function the caller invoked                        *)
(*   pc             "idle", the network call in flight, or "done"          *)
(*   user_message, llm_response, message, tool_call, weather_data,         *)
(*   second_response                                                       *)
(*                  locals of get_nvidia_response                          *)
(*   city_name, response, coords, coord_response                           *)
(*                  locals of get_weather                                  *)
(*   geo_response   get_coordinates' response                              *)
(*   result         what the entry function returned (or raised)           *)
(*   trace          the invocations, routing decisions, network calls and  *)
(*                  their answers, in the order they happened              *)
(* response, geo_response, coord_response, llm_response and                *)
(* second_response hold the whole outcome of the call, a raised error      *)
(* included; message holds response.choices[0].message, or the error       *)
(* raised in getting it.                                                   *)
(* Of the endpoint:                                                        *)
(*   request        the body of the HTTP request in hand                   *)
(*   view           "none", "core" (get_nvidia_response is running, then   *)
(*                  the save), "responded"                                 *)
(*   http           the HTTP response                                      *)
(*   db             the rows of ChatMessage, in the order of creation      *)
(* Shared or beside the request:                                           *)
(*   env            the configuration source                               *)
(*   parked         the locals of a second request, handled by another     *)
(*                  thread, while that thread is not the one stepping      *)
(***************************************************************************)
VARIABLES env, entry, pc, user_message, message, tool_call, weather_data,
          second_response, city_name, response, coords, coord_response,
          geo_response, result, trace, llm_response, request, view, http, db,
          parked

vars == <<env, entry, pc, user_message, message, tool_call, weather_data,
          second_response, city_name, response, coords, coord_response,
          geo_response, result, trace, llm_response, request, view, http, db,
          parked>>

\* what the core never touches
server == <<request, view, http, db, parked>>

Invoke(fn, arg) == [ev |-> "invoke", fn |-> fn, arg |-> arg]
Result(fn, outcome) == [ev |-> "result", fn |-> fn, outcome |-> outcome]
Call(request_) == [ev |-> "call", api |-> request_.api, request |-> request_]
Answer(api, outcome) ==
    [ev |-> "answer", api |-> api,
     raised |-> outcome.t = "raise",
     status_code |-> IF outcome.t = "response" THEN outcome.status_code ELSE 0]
\* the router enters one of its branches
Route(branch) == [ev |-> "route", branch |-> branch]

\* tr, followed by the branch that step enters, if it enters one
Routed(step, tr) ==
    IF "branch" \in DOMAIN step THEN Append(tr, Route(step.branch)) ELSE tr

\* the locals of the request in hand
Locals ==
    [entry |-> entry, pc |-> pc, user_message |-> user_message, message |-> message,
     tool_call |-> tool_call, weather_data |-> weather_data,
     second_response |-> second_response, city_name |-> city_name,
     response |-> response, coords |-> coords, coord_response |-> coord_response,
     geo_response |-> geo_response, result |-> result, trace |-> trace,
     llm_response |-> llm_response]

\* the locals of a request that has not begun
FreshLocals ==
    [entry |-> "none", pc |-> "idle", user_message |-> None, message |-> None,
     tool_call |-> None, weather_data |-> None, second_response |-> None,
     city_name |-> None, response |-> None, coords |-> None, coord_response |-> None,
     geo_response |-> None, result |-> None, trace |-> <<>>, llm_response |-> None]

Init ==
    /\ env \in Environments
    /\ entry = "none"
    /\ pc = "idle"
    /\ user_message = None
    /\ message = None
    /\ tool_call = None
    /\ weather_data = None
    /\ second_response = None
    /\ city_name = None
    /\ response = None
    /\ coords = None
    /\ coord_response = None
    /\ geo_response = None
    /\ result = None
    /\ trace = <<>>
    /\ llm_response = None
    /\ request = None
    /\ view = "none"
    /\ http = None
    /\ db = <<>>
    /\ parked = FreshLocals

(***************************************************************************)
(* Returning from get_weather and get_coordinates to whoever called them.  *)
(***************************************************************************)
\* get_weather returns value: to the caller of the module, to the keyword
\* variant of get_nvidia_response, which returns it, or to
\* get_nvidia_response, which goes on to its second completion call
LeaveWeather(ent, um, tc, value, tr) ==
    IF ent = "get_weather"
    THEN /\ pc' = "done"
         /\ result' = Return(value)
         /\ weather_data' = weather_data
         /\ trace' = Append(tr, Result("get_weather", Return(value)))
    ELSE IF ent = "get_nvidia_response_keyword"
    THEN /\ pc' = "done"
         /\ result' = Return(value)
         /\ weather_data' = value
         /\ trace' = tr \o <<Result("get_weather", Return(value)),
                             Result("get_nvidia_response", Return(value))>>
    ELSE LET step == get_nvidia_response_on_weather(um, tc, value)
         IN  /\ pc' = "completion2"
             /\ result' = None
             /\ weather_data' = value
             /\ trace' = tr \o <<Result("get_weather", Return(value)), Call(step.request)>>

\* get_coordinates ends with outcome: to the caller of the module, or to
\* get_weather, which goes on to the lookup by coordinates
LeaveCoordinates(ent, um, tc, city, outcome, tr) ==
    LET tr1 == Append(tr, Result("get_coordinates", outcome))
    IN  IF ent = "get_coordinates"
        THEN /\ pc' = "done"
             /\ result' = outcome
             /\ coords' = coords
             /\ weather_data' = weather_data
             /\ trace' = tr1
        ELSE IF outcome.t = "raise"
        THEN /\ coords' = coords
             /\ LeaveWeather(ent, um, tc, get_weather_except(outcome.exc), tr1)
        ELSE LET step == get_weather_on_coords(env, city, outcome.v)
             IN  /\ coords' = outcome.v
                 /\ IF step.do = "return"
                    THEN LeaveWeather(ent, um, tc, step.value, tr1)
                    ELSE /\ pc' = "coord"
                         /\ result' = None
                         /\ weather_data' = weather_data
                         /\ trace' = Append(tr1, Call(step.request))

\* get_coordinates(city) is invoked
EnterCoordinates(ent, um, tc, city, tr) ==
    LET tr1 == Append(tr, Invoke("get_coordinates", city))
        step == get_coordinates_begin(env, city)
    IN  IF step.do = "return"
        THEN LeaveCoordinates(ent, um, tc, city, Return(step.value), tr1)
        ELSE /\ pc' = "geocoding"
             /\ result' = None
             /\ coords' = coords
             /\ weather_data' = weather_data
             /\ trace' = Append(tr1, Call(step.request))

\* get_weather(city) is invoked
EnterWeather(ent, um, tc, city, tr) ==
    LET tr1 == Append(tr, Invoke("get_weather", city))
        step == get_weather_begin(env, city)
    IN  /\ city_name' = city
        /\ IF step.do = "return"
           THEN LeaveWeather(ent, um, tc, step.value, tr1)
           ELSE /\ pc' = "byname"
                /\ result' = None
                /\ weather_data' = weather_data
                /\ trace' = Append(tr1, Call(step.request))

\* get_nvidia_response returns value
LeaveChat(value, tr) ==
    /\ pc' = "done"
    /\ result' = Return(value)
    /\ trace' = Append(tr, Result("get_nvidia_response", Return(value)))

(***************************************************************************)
(* The steps of a request.                                                 *)
(***************************************************************************)
\* get_nvidia_response(um) begins: up to the first completion call
BeginChat(um) ==
    /\ entry' = "get_nvidia_response"
    /\ user_message' = um
    /\ LET tr1 == <<Invoke("get_nvidia_response", um)>>
           step == get_nvidia_response_begin(env, um)
       IN  IF step.do = "return"
           THEN LeaveChat(step.value, tr1)
           ELSE /\ pc' = "completion1"
                /\ result' = None
                /\ trace' = Append(tr1, Call(step.request))
    /\ UNCHANGED <<env, second_response, message, tool_call, weather_data, city_name, response,
                   coords, coord_response, geo_response, llm_response>>

\* get_nvidia_response(um) is called from outside the module
CallGetNvidiaResponse ==
    \E um \in UserMessages :
        /\ pc = "idle"
        /\ view = "none"
        /\ BeginChat(um)
        /\ UNCHANGED server

\* the first completion call answers: up to the return, or into get_weather
FirstCompletionAnswers(outcomes) ==
    \E outcome \in outcomes :
        /\ pc = "completion1"
        /\ llm_response' = outcome
        /\ message' = FirstChoice(outcome)
        /\ LET step == get_nvidia_response_on_first(outcome)
               tr1 == Routed(step, Append(trace, Answer("completion", outcome)))
           IN  IF step.do = "return"
               THEN /\ LeaveChat(step.value, tr1)
                    /\ UNCHANGED <<tool_call, weather_data, city_name>>
               ELSE /\ tool_call' = step.tool_call
                    /\ EnterWeather(entry, user_message, step.tool_call, step.location, tr1)
        /\ UNCHANGED <<env, second_response, entry, user_message, response, coords, coord_response,
                       geo_response>>
        /\ UNCHANGED server

FirstCompletionReturns == FirstCompletionAnswers(FirstOutcomes)

\* the weather call by name answers
ByNameAnswers(outcomes) ==
    \E outcome \in outcomes :
        /\ pc = "byname"
        /\ response' = outcome
        /\ LET tr1 == Append(trace, Answer("weather_by_name", outcome))
               step == get_weather_on_response(city_name, outcome)
           IN  IF step.do = "return"
               THEN /\ LeaveWeather(entry, user_message, tool_call, step.value, tr1)
                    /\ coords' = coords
               ELSE EnterCoordinates(entry, user_message, tool_call, city_name, tr1)
        /\ UNCHANGED <<env, second_response, entry, user_message, message, tool_call, city_name,
                       coord_response, geo_response, llm_response>>
        /\ UNCHANGED server

ByNameReturns == ByNameAnswers(WeatherOutcomes)

\* the geocoding call answers
GeocodingAnswers(outcomes) ==
    \E outcome \in outcomes :
        /\ pc = "geocoding"
        /\ geo_response' = outcome
        /\ LeaveCoordinates(entry, user_message, tool_call, city_name,
                            get_coordinates_end(city_name, outcome),
                            Append(trace, Answer("geocoding", outcome)))
        /\ UNCHANGED <<env, second_response, entry, user_message, message, tool_call, city_name,
                       response, coord_response, llm_response>>
        /\ UNCHANGED server

GeocodingReturns == GeocodingAnswers(GeoOutcomes)

\* the weather call by coordinates answers
CoordAnswers(outcomes) ==
    \E outcome \in outcomes :
        /\ pc = "coord"
        /\ coord_response' = outcome
        /\ LeaveWeather(entry, user_message, tool_call,
                        get_weather_on_coord_response(city_name, coords, outcome).value,
                        Append(trace, Answer("weather_by_coord", outcome)))
        /\ UNCHANGED <<env, second_response, entry, user_message, message, tool_call, city_name,
                       response, coords, geo_response, llm_response>>
        /\ UNCHANGED server

CoordReturns == CoordAnswers(WeatherOutcomes)

\* the second completion call answers
SecondCompletionAnswers(outcomes) ==
    \E outcome \in outcomes :
        /\ pc = "completion2"
        /\ second_response' = outcome
        /\ LeaveChat(get_nvidia_response_on_second(outcome).value,
                     Append(trace, Answer("completion", outcome)))
        /\ UNCHANGED <<env, entry, user_message, message, tool_call, weather_data,
                       city_name, response, coords, coord_response, geo_response,
                       llm_response>>
        /\ UNCHANGED server

SecondCompletionReturns == SecondCompletionAnswers(SecondOutcomes)

\* get_weather(city) is called from outside the module
CallGetWeather ==
    \E city \in Cities \cup {Text(<<>>)} :
        /\ pc = "idle"
        /\ view = "none"
        /\ entry' = "get_weather"
        /\ EnterWeather("get_weather", None, None, city, <<>>)
        /\ UNCHANGED <<env, second_response, user_message, message, tool_call, response, coords,
                       coord_response, geo_response, llm_response>>
        /\ UNCHANGED server

\* get_coordinates(city) is called from outside the module
CallGetCoordinates ==
    \E city \in Cities :
        /\ pc = "idle"
        /\ view = "none"
        /\ entry' = "get_coordinates"
        /\ city_name' = city
        /\ EnterCoordinates("get_coordinates", None, None, city, <<>>)
        /\ UNCHANGED <<env, second_response, user_message, message, tool_call, response,
                       coord_response, geo_response, llm_response>>
        /\ UNCHANGED server

\* the keyword variant of get_nvidia_response(um) is called: up to the
\* return, into get_weather, or up to llm.invoke
CallKeywordResponse ==
    \E um \in KeywordMessages :
        /\ pc = "idle"
        /\ view = "none"
        /\ entry' = "get_nvidia_response_keyword"
        /\ user_message' = um
        /\ LET step == get_nvidia_response_keyword_begin(env, um)
               tr1 == Routed(step, <<Invoke("get_nvidia_response", um)>>)
           IN  CASE step.do = "return" ->
                        /\ LeaveChat(step.value, tr1)
                        /\ UNCHANGED <<weather_data, city_name>>
                 [] step.do = "get_weather" ->
                        EnterWeather("get_nvidia_response_keyword", um, None,
                                     step.location, tr1)
                 [] OTHER ->
                        /\ pc' = "invoke"
                        /\ result' = None
                        /\ trace' = Append(tr1, Call(step.request))
                        /\ UNCHANGED <<weather_data, city_name>>
        /\ UNCHANGED <<env, second_response, message, tool_call, response, coords,
                       coord_response, geo_response, llm_response>>
        /\ UNCHANGED server

\* llm.invoke answers
LlmInvokeAnswers(outcomes) ==
    \E outcome \in outcomes :
        /\ pc = "invoke"
        /\ llm_response' = outcome
        /\ LeaveChat(get_nvidia_response_keyword_on_invoke(outcome).value,
                     Append(trace, Answer("completion", outcome)))
        /\ UNCHANGED <<env, entry, user_message, message, tool_call, weather_data,
                       second_response, city_name, response, coords, coord_response,
                       geo_response>>
        /\ UNCHANGED server

LlmInvokeReturns == LlmInvokeAnswers(InvokeOutcomes)

\* extract_city_name(um) is called from outside the module
CallExtractCityName ==
    \E um \in KeywordMessages :
        /\ pc = "idle"
        /\ view = "none"
        /\ entry' = "extract_city_name"
        /\ user_message' = um
        /\ pc' = "done"
        /\ result' = Return(extract_city_name(um))
        /\ trace' = <<Invoke("extract_city_name", um),
                      Result("extract_city_name", Return(extract_city_name(um)))>>
        /\ UNCHANGED <<env, second_response, message, tool_call, weather_data, city_name,
                       response, coords, coord_response, geo_response, llm_response>>
        /\ UNCHANGED server

\* the locals of the request that comes next
ResetLocals ==
    /\ pc' = "idle"
    /\ entry' = "none"
    /\ user_message' = None
    /\ message' = None
    /\ tool_call' = None
    /\ weather_data' = None
    /\ second_response' = None
    /\ city_name' = None
    /\ response' = None
    /\ coords' = None
    /\ coord_response' = None
    /\ geo_response' = None
    /\ result' = None
    /\ trace' = <<>>
    /\ llm_response' = None

\* the request is over; the next one starts from a clean slate
NextRequest ==
    /\ pc = "done"
    /\ view = "none"
    /\ ResetLocals
    /\ UNCHANGED env
    /\ UNCHANGED server

Next ==
    \/ CallGetNvidiaResponse
    \/ FirstCompletionReturns
    \/ ByNameReturns
    \/ GeocodingReturns
    \/ CoordReturns
    \/ SecondCompletionReturns
    \/ CallGetWeather
    \/ CallGetCoordinates
    \/ CallKeywordResponse
    \/ LlmInvokeReturns
    \/ CallExtractCityName
    \/ NextRequest

Spec == Init /\ [][Next]_vars

(***************************************************************************)
(* The two routers alone, with the smaller set of answers.  Every network  *)
(* call is made with a timeout (60 seconds for the weather calls, 10 for   *)
(* the geocoding call, the client's own for the completion calls): a call  *)
(* in flight is answered, or raises, in the end.                           *)
(***************************************************************************)
RouterNext ==
    \/ CallGetNvidiaResponse
    \/ CallKeywordResponse
    \/ FirstCompletionAnswers(ServedFirstOutcomes)
    \/ ByNameAnswers(ServedWeatherOutcomes)
    \/ GeocodingAnswers(ServedGeoOutcomes)
    \/ CoordAnswers(ServedWeatherOutcomes)
    \/ SecondCompletionAnswers(ServedSecondOutcomes)
    \/ LlmInvokeAnswers(ServedInvokeOutcomes)
    \/ NextRequest

RouterSpec ==
    /\ Init
    /\ [][RouterNext]_vars
    /\ WF_pc(FirstCompletionAnswers(ServedFirstOutcomes))
    /\ WF_pc(ByNameAnswers(ServedWeatherOutcomes))
    /\ WF_pc(GeocodingAnswers(ServedGeoOutcomes))
    /\ WF_pc(CoordAnswers(ServedWeatherOutcomes))
    /\ WF_pc(SecondCompletionAnswers(ServedSecondOutcomes))
    /\ WF_pc(LlmInvokeAnswers(ServedInvokeOutcomes))

(***************************************************************************)
(* The chat endpoint.  A request is handled from its body to its HTTP      *)
(* response; the core runs in between, with the smaller set of answers,    *)
(* and ChatMessage.objects.create is a call like the network calls: it     *)
(* stores the row or raises.                                               *)
(***************************************************************************)
MaxExchanges == 2

\* chat(request) begins: to the response of a request that is turned away,
\* or into get_nvidia_response up to its first completion call
ChatRequest ==
    \E body \in Bodies :
        /\ pc = "idle"
        /\ view = "none"
        /\ Len(db) < MaxExchanges
        /\ request' = body
        /\ LET step == chat_begin(body)
           IN  IF step.do = "respond"
               THEN /\ view' = "responded"
                    /\ http' = step.response
                    /\ UNCHANGED <<env, entry, pc, user_message, message, tool_call,
                                   weather_data, second_response, city_name, response,
                                   coords, coord_response, geo_response, result, trace,
                                   llm_response>>
               ELSE /\ view' = "core"
                    /\ http' = None
                    /\ BeginChat(step.user_message)
        /\ UNCHANGED <<db, parked>>

\* lines 26-42: get_nvidia_response has returned bot_response, and
\* ChatMessage.objects.create stores the row or raises
CreateAnswers ==
    \E outcome \in CreateOutcomes :
        /\ view = "core"
        /\ pc = "done"
        /\ LET bot_response == result.v
               step == chat_on_create(bot_response, outcome)
           IN  /\ db' = IF outcome = "stored"
                        THEN Append(db, ChatMessage(user_message, bot_response))
                        ELSE db
               /\ http' = step.response
        /\ view' = "responded"
        /\ UNCHANGED <<env, entry, pc, user_message, message, tool_call, weather_data,
                       second_response, city_name, response, coords, coord_response,
                       geo_response, result, trace, llm_response, request, parked>>

\* the response is sent; the endpoint takes the next request
ChatResponded ==
    /\ view = "responded"
    /\ ResetLocals
    /\ request' = None
    /\ http' = None
    /\ view' = "none"
    /\ UNCHANGED <<env, db, parked>>

ViewInit == Init /\ env \in ServedEnvironments

ViewNext ==
    \/ ChatRequest
    \/ FirstCompletionAnswers(ServedFirstOutcomes)
    \/ ByNameAnswers(ServedWeatherOutcomes)
    \/ GeocodingAnswers(ServedGeoOutcomes)
    \/ CoordAnswers(ServedWeatherOutcomes)
    \/ SecondCompletionAnswers(ServedSecondOutcomes)
    \/ CreateAnswers
    \/ ChatResponded

ViewSpec == ViewInit /\ [][ViewNext]_vars

(***************************************************************************)
(* Two requests handled by two threads.  Every name the functions assign   *)
(* is a local of the call (the client and the tool list are built inside   *)
(* get_nvidia_response, lines 148-170); the module holds no variable that  *)
(* a call writes.  The thread that steps has its locals in the variables   *)
(* of the request, the other thread's locals are parked.                   *)
(***************************************************************************)
\* a thread that finds in city_name what the other thread left there
Resumed_shared_city_name(saved, running) ==
    [saved EXCEPT !.city_name = running.city_name]

\* the locals a thread finds when it runs again: its own
Resumed(saved, running) == saved

\* the other thread runs
Switch ==
    /\ view = "none"
    /\ parked' = Locals
    /\ LET mine == Resumed(parked, Locals)
       IN  /\ entry' = mine.entry
           /\ pc' = mine.pc
           /\ user_message' = mine.user_message
           /\ message' = mine.message
           /\ tool_call' = mine.tool_call
           /\ weather_data' = mine.weather_data
           /\ second_response' = mine.second_response
           /\ city_name' = mine.city_name
           /\ response' = mine.response
           /\ coords' = mine.coords
           /\ coord_response' = mine.coord_response
           /\ geo_response' = mine.geo_response
           /\ result' = mine.result
           /\ trace' = mine.trace
           /\ llm_response' = mine.llm_response
    /\ UNCHANGED <<env, request, view, http, db>>

ConcurrentNext ==
    \/ CallGetNvidiaResponse
    \/ FirstCompletionAnswers(ServedFirstOutcomes)
    \/ ByNameAnswers(ServedWeatherOutcomes)
    \/ GeocodingAnswers(ServedGeoOutcomes)
    \/ CoordAnswers(ServedWeatherOutcomes)
    \/ SecondCompletionAnswers(ServedSecondOutcomes)
    \/ Switch
    \/ NextRequest

ConcurrentSpec == Init /\ [][ConcurrentNext]_vars

TypeOK ==
    /\ pc \in {"idle", "completion1", "byname", "geocoding", "coord", "completion2",
               "invoke", "done"}
    /\ entry \in {"none", "get_nvidia_response", "get_weather", "get_coordinates",
                  "get_nvidia_response_keyword", "extract_city_name"}
    /\ view \in {"none", "core", "responded"}

(***************************************************************************)
(* Reading the trace.                                                      *)
(***************************************************************************)
\* the second completion answered with a message
Replied(r) == r # None /\ r.t = "return" /\ Len(r.v.choices) > 0

CallsTo(api) == {i \in DOMAIN trace : trace[i].ev = "call" /\ trace[i].api = api}
NetworkCalls == {i \in DOMAIN trace : trace[i].ev = "call"}
Invocations(fn) == {i \in DOMAIN trace : trace[i].ev = "invoke" /\ trace[i].fn = fn}
Results(fn) == {i \in DOMAIN trace : trace[i].ev = "result" /\ trace[i].fn = fn}

ChatDone == pc = "done" /\ entry = "get_nvidia_response"

\* a key that is undefined or empty
KeyUnusable(k) == IF k.t = "undefined" THEN TRUE ELSE k.v = ""

(***************************************************************************)
(* C1: get_nvidia_response always ends by returning a text string: no      *)
(* exception escapes and the value is never a non-string such as None.     *)
(* The code returns message.content, which is None when the model's reply  *)
(* carries no text (a reply invoking a tool other than get_weather, or a   *)
(* reply without content): TLC finds C1_AlwaysReturnsText violated.        *)
(***************************************************************************)
C1_AlwaysReturnsText ==
    ChatDone => (result.t = "return" /\ IsStr(result.v))

(***************************************************************************)
(* C2, as claimed: in a request where the completion-API key or the        *)
(* weather-API key is missing or empty, no network call is issued.         *)
(* Violated: with a usable completion key and an unusable weather key the  *)
(* completion calls are made before the weather key is ever looked up.     *)
(***************************************************************************)
C2_NoNetworkCallOnAnyMissingKey ==
    (entry = "get_nvidia_response"
        /\ (KeyUnusable(env.NVIDIA_API_KEY) \/ KeyUnusable(env.WEATHER_API_KEY)))
    => NetworkCalls = {}

(***************************************************************************)
(* C2, amended: a missing or empty completion-API key makes the request    *)
(* return before any network call; a missing or empty weather-API key      *)
(* makes the weather lookup return without any weather or geocoding call   *)
(* (the completion calls of the request are still made).                   *)
(***************************************************************************)
C2_MissingKeyShortCircuits ==
    /\ (entry = "get_nvidia_response" /\ KeyUnusable(env.NVIDIA_API_KEY))
        => (NetworkCalls = {} /\ pc \in {"idle", "done"})
    /\ (entry \in {"get_nvidia_response", "get_weather"} /\ KeyUnusable(env.WEATHER_API_KEY))
        => /\ CallsTo("weather_by_name") = {}
           /\ CallsTo("geocoding") = {}
           /\ CallsTo("weather_by_coord") = {}
           /\ \A i \in Results("get_weather") : ~IsReport(trace[i].outcome.v)

\* a request whose weather lookup ran without a usable weather key, between
\* two completion calls
C2_Witness ==
    /\ ChatDone
    /\ KeyUnusable(env.WEATHER_API_KEY)
    /\ Results("get_weather") # {}
    /\ Cardinality(CallsTo("completion")) = 2

(***************************************************************************)
(* C3, as claimed: whenever the first response includes a tool invocation  *)
(* the router calls the weather lookup, makes a second completion call and *)
(* returns its text; whenever it includes none, neither happens and the    *)
(* first completion's text is returned.  Violated: an invocation naming    *)
(* another tool, or arguments that do not parse, lead to no lookup.        *)
(***************************************************************************)
C3_ToolInvocationAlwaysRoundTrips ==
    (ChatDone /\ message # None /\ message.t = "return")
    => IF HasToolCalls(message.v)
       THEN /\ Invocations("get_weather") # {}
            /\ Cardinality(CallsTo("completion")) = 2
            /\ Replied(second_response)
            /\ result = Return(second_response.v.choices[1].content)
       ELSE /\ Invocations("get_weather") = {}
            /\ Cardinality(CallsTo("completion")) = 1
            /\ result = Return(message.v.content)

(***************************************************************************)
(* C3, amended: whenever the first tool invocation of the first response   *)
(* names get_weather and its arguments parse to a JSON object, the router  *)
(* calls the weather lookup with the location of those arguments (the      *)
(* empty string when they hold none), makes a second completion call and,  *)
(* when that call answers with a message, returns that message's content;  *)
(* whenever the message of the first response includes no tool invocation, *)
(* no weather lookup and no second completion call occur and the first     *)
(* completion's content is returned.                                       *)
(***************************************************************************)
C3_WeatherInvocationRoundTrips ==
    (ChatDone /\ message # None /\ message.t = "return")
    => LET calls == message.v.tool_calls
       IN  /\ (calls # None /\ Len(calls.items) > 0
               /\ calls.items[1].name = "get_weather"
               /\ calls.items[1].arguments.shape = "object")
              => /\ \E i \in Invocations("get_weather") :
                        trace[i].arg = IF "location" \in calls.items[1].arguments.has
                                       THEN calls.items[1].arguments.location
                                       ELSE Text(<<>>)
                 /\ Cardinality(Invocations("get_weather")) = 1
                 /\ Cardinality(CallsTo("completion")) = 2
                 /\ second_response # None
                 /\ (Replied(second_response)
                        => result = Return(second_response.v.choices[1].content))
           /\ (calls = None \/ (calls # None /\ Len(calls.items) = 0))
              => /\ Invocations("get_weather") = {}
                 /\ Cardinality(CallsTo("completion")) = 1
                 /\ second_response = None
                 /\ result = Return(message.v.content)

\* a request that went through the lookup and returned the second
\* completion's text, which differs from the first completion's
C3_Witness ==
    /\ ChatDone
    /\ message.t = "return"
    /\ HasToolCalls(message.v)
    /\ Len(message.v.tool_calls.items) > 1
    /\ Replied(second_response)
    /\ IsStr(second_response.v.choices[1].content)
    /\ second_response.v.choices[1].content # message.v.content
    /\ result = Return(second_response.v.choices[1].content)

(***************************************************************************)
(* C4: whenever a second completion call is made, its tool-role message    *)
(* holds exactly the string the weather lookup returned for the request    *)
(* and is keyed by the id of the tool call of the first response.          *)
(***************************************************************************)
C4_ToolMessageCarriesLookupResult ==
    \A i \in CallsTo("completion") :
        Len(trace[i].request.messages) > 2
        => /\ i > 1
           /\ trace[i - 1] = Result("get_weather", trace[i - 1].outcome)
           /\ message.t = "return"
           /\ LET tool == trace[i].request.messages[Len(trace[i].request.messages)]
              IN  /\ tool.role = "tool"
                  /\ IsStr(tool.content)
                  /\ Return(tool.content) = trace[i - 1].outcome
                  /\ tool.tool_call_id = message.v.tool_calls.items[1].id

\* a second completion call that carries a failure text of the lookup
C4_Witness ==
    /\ pc = "completion2"
    /\ weather_data # None
    /\ ~IsReport(weather_data)
    /\ response # None
    /\ Len(message.v.tool_calls.items) > 1

(***************************************************************************)
(* Reading the answers the weather lookup received.                        *)
(***************************************************************************)
Answered(r) == r # None /\ r.t = "response"
RaisedTimeout(r) == r # None /\ r.t = "raise" /\ r.exc.cls = "Timeout"
RaisedTransport(r) == r # None /\ r.t = "raise" /\ r.exc.cls = "ConnectionError"

\* a weather answer with status 200 whose body holds all five values
CompleteAnswer(r) ==
    /\ Answered(r)
    /\ r.status_code = HTTP_OK
    /\ r.json.t = "return"
    /\ r.json.v.has = AllWeatherFields

\* a geocoding answer with status 200 and a list whose first element holds
\* a latitude and a longitude
GeoHit(r) ==
    /\ Answered(r)
    /\ r.status_code = HTTP_OK
    /\ r.json.t = "return"
    /\ r.json.v.t = "list"
    /\ Len(r.json.v.items) > 0
    /\ {"lat", "lon"} \subseteq r.json.v.items[1].has

(***************************************************************************)
(* C5: the weather lookup returns a weather report only when a weather     *)
(* call answered 200 with all five values in its body, and the report      *)
(* holds those values; in every other case it returns a failure string.    *)
(***************************************************************************)
C5_ReportOnlyFromCompleteSuccess ==
    \A i \in Results("get_weather") :
        LET o == trace[i].outcome
        IN  /\ o.t = "return"
            /\ IsStr(o.v)
            /\ IsReport(o.v)
               => \E src \in {response, coord_response} :
                      /\ CompleteAnswer(src)
                      /\ o.v.temperature = src.json.v.temp
                      /\ o.v.feels_like = src.json.v.feels_like
                      /\ o.v.humidity = src.json.v.humidity
                      /\ o.v.condition = Capitalize(src.json.v.description)
                      /\ o.v.wind_speed = src.json.v.speed

\* a lookup whose by-name call answered 200 with a value missing, and which
\* returned the failure text of the missing key
C5_Witness ==
    /\ pc = "done"
    /\ entry = "get_weather"
    /\ Answered(response)
    /\ response.status_code = HTTP_OK
    /\ response.json.t = "return"
    /\ "humidity" \notin response.json.v.has
    /\ result = Return(WeatherError(KeyErrorDetail("humidity")))

(***************************************************************************)
(* C6: when the by-name call answers 404 and geocoding yields coordinates, *)
(* the lookup issues the call by those coordinates, and the report it      *)
(* returns when that call answers 200 with all five values names the city  *)
(* by the geocoded name (the queried name when the geocoding element holds *)
(* no name), not by the name the caller passed.                            *)
(***************************************************************************)
C6_FallbackUsesResolvedName ==
    \A i \in Results("get_weather") :
        (Answered(response) /\ response.status_code = HTTP_NOT_FOUND /\ GeoHit(geo_response))
        => LET w == trace[i].outcome.v
               first == geo_response.json.v.items[1]
               resolved == IF "name" \in first.has THEN first.name ELSE city_name
           IN  /\ \E j \in CallsTo("weather_by_coord") :
                      /\ j < i
                      /\ trace[j].request.lat = first.lat
                      /\ trace[j].request.lon = first.lon
               /\ IsReport(w) => w.city = resolved
               /\ CompleteAnswer(coord_response) => (IsReport(w) /\ w.city = resolved)

\* a report named after the geocoded place, which is not the queried name
C6_Witness ==
    /\ pc = "done"
    /\ Answered(response)
    /\ response.status_code = HTTP_NOT_FOUND
    /\ GeoHit(geo_response)
    /\ city_name = Text(<<"P","u","l","l","u","v","a","z","h","y">>)
    /\ Len(geo_response.json.v.items) > 1
    /\ weather_data # None
    /\ IsReport(weather_data)
    /\ weather_data.city = Text(<<"P","e","r","u","m","b","a","v","o","o","r">>)

(***************************************************************************)
(* C7, as claimed: when the by-name call answers with a non-2xx status     *)
(* other than 404, or when the retry by coordinates after a 404 fails for  *)
(* any reason, the lookup returns the city-not-found message.  Violated:   *)
(* a 500 gives the status-error text.                                      *)
(***************************************************************************)
C7_OtherFailuresGiveCityNotFound ==
    \A i \in Results("get_weather") :
        ( \/ (Answered(response)
                /\ response.status_code \notin 200..299
                /\ response.status_code # HTTP_NOT_FOUND)
          \/ (Answered(response)
                /\ response.status_code = HTTP_NOT_FOUND
                /\ coord_response # None
                /\ ~CompleteAnswer(coord_response)) )
        => trace[i].outcome.v = CityNotFound(city_name)

(***************************************************************************)
(* C7, amended: when the by-name call answers with a status other than 200 *)
(* and 404, the lookup returns the status-error text carrying that status; *)
(* when the by-name call answers 404 and geocoding yields no coordinates   *)
(* or the call by coordinates answers with a status other than 200, it     *)
(* returns the city-not-found message; a call by coordinates that raises   *)
(* or answers 200 without all five values gives the failure text of that   *)
(* error instead.                                                          *)
(***************************************************************************)
C7_StatusErrorOrCityNotFound ==
    \A i \in Results("get_weather") :
        LET w == trace[i].outcome.v
        IN  /\ (Answered(response) /\ response.status_code \notin {HTTP_OK, HTTP_NOT_FOUND})
               => w = StatusError(response.status_code)
            /\ (Answered(response) /\ response.status_code = HTTP_NOT_FOUND
                    /\ (coords = None \/ (Answered(coord_response)
                                            /\ coord_response.status_code # HTTP_OK)))
               => w = CityNotFound(city_name)
            /\ (coord_response # None
                    /\ (coord_response.t = "raise"
                        \/ (coord_response.status_code = HTTP_OK
                              /\ ~CompleteAnswer(coord_response))))
               => w.kind \in {WeatherTimeout.kind,
                              WeatherConnectionError(<<>>).kind,
                              WeatherError(<<>>).kind}

\* a lookup whose by-name call answered 500
C7_Witness ==
    /\ pc = "done"
    /\ entry = "get_weather"
    /\ Answered(response)
    /\ response.status_code = 500
    /\ result = Return(StatusError(500))

(***************************************************************************)
(* C8, as claimed: whenever the by-name call, the geocoding call or the    *)
(* call by coordinates of a weather lookup times out the lookup returns    *)
(* the timeout failure, and whenever one fails with another transport      *)
(* error it returns the connection-error failure carrying the detail.      *)
(* Violated: a geocoding call that times out gives city-not-found.         *)
(***************************************************************************)
C8_AnyCallFailureIsSurfaced ==
    \A i \in Results("get_weather") :
        \A r \in {response, geo_response, coord_response} :
            /\ RaisedTimeout(r) => trace[i].outcome.v = WeatherTimeout
            /\ RaisedTransport(r)
               => trace[i].outcome.v = WeatherConnectionError(r.exc.detail)

(***************************************************************************)
(* C8, amended: whenever the by-name call or the call by coordinates of a  *)
(* weather lookup times out the lookup returns the timeout failure, and    *)
(* whenever one fails with another transport error it returns the          *)
(* connection-error failure carrying the detail; a geocoding call that     *)
(* times out or fails in transport is absorbed by the geocoding lookup,    *)
(* and the weather lookup returns the city-not-found message.              *)
(***************************************************************************)
C8_WeatherCallFailureIsSurfaced ==
    \A i \in Results("get_weather") :
        LET w == trace[i].outcome.v
        IN  /\ \A r \in {response, coord_response} :
                   /\ RaisedTimeout(r) => w = WeatherTimeout
                   /\ RaisedTransport(r) => w = WeatherConnectionError(r.exc.detail)
            /\ (RaisedTimeout(geo_response) \/ RaisedTransport(geo_response))
               => w = CityNotFound(city_name)

\* a lookup whose call by coordinates timed out
C8_Witness ==
    /\ Results("get_weather") # {}
    /\ RaisedTimeout(coord_response)
    /\ weather_data = WeatherTimeout

(***************************************************************************)
(* C9: the geocoding lookup never raises; it returns the latitude,         *)
(* longitude and name of the first element (the queried name when the      *)
(* element holds none) when the call answers 200 with a non-empty list     *)
(* whose first element holds both coordinates, and None on an empty list,  *)
(* another status, an undefined credential, a malformed answer or any      *)
(* raised error.                                                           *)
(***************************************************************************)
C9_GeocodingNeverRaises ==
    \A i \in Results("get_coordinates") :
        LET o == trace[i].outcome
        IN  /\ o.t = "return"
            /\ env.WEATHER_API_KEY.t = "undefined"
               => (o.v = None /\ CallsTo("geocoding") = {})
            /\ IF GeoHit(geo_response)
               THEN LET first == geo_response.json.v.items[1]
                    IN  o.v = [t |-> "coords", lat |-> first.lat, lon |-> first.lon,
                               name |-> IF "name" \in first.has THEN first.name
                                                                ELSE city_name]
               ELSE o.v = None

\* a geocoding answer whose first element lacks its latitude
C9_Witness ==
    /\ pc = "done"
    /\ entry = "get_coordinates"
    /\ Answered(geo_response)
    /\ geo_response.status_code = HTTP_OK
    /\ geo_response.json.t = "return"
    /\ geo_response.json.v.t = "list"
    /\ Len(geo_response.json.v.items) > 1
    /\ "lat" \notin geo_response.json.v.items[1].has
    /\ result = Return(None)

(***************************************************************************)
(* C10: within one request the external calls are sequential and never     *)
(* repeated: at most two completion calls, one weather lookup, one by-name *)
(* call, one geocoding call (only after the by-name call answered 404) and *)
(* one call by coordinates (only after geocoding yielded coordinates); a   *)
(* call is issued only when every earlier call has been answered; the      *)
(* second completion call comes after the first answered and the lookup    *)
(* returned; no call that failed is issued again.                          *)
(***************************************************************************)
C10_CallsSequentialNeverRepeated ==
    entry = "get_nvidia_response" =>
        /\ Cardinality(CallsTo("completion")) <= 2
        /\ Cardinality(Invocations("get_weather")) <= 1
        /\ Cardinality(CallsTo("weather_by_name")) <= 1
        /\ Cardinality(CallsTo("geocoding")) <= 1
        /\ Cardinality(CallsTo("weather_by_coord")) <= 1
        /\ \A i \in NetworkCalls :
              /\ \A j \in NetworkCalls :
                    j < i => \E k \in (j + 1)..(i - 1) :
                                trace[k].ev = "answer" /\ trace[k].api = trace[j].api
              /\ i < Len(trace) => (trace[i + 1].ev = "answer" /\ trace[i + 1].api = trace[i].api)
              /\ i = Len(trace) => pc \notin {"idle", "done"}
        /\ pc \notin {"idle", "done"} => trace[Len(trace)].ev = "call"
        /\ \A i \in CallsTo("geocoding") :
              /\ i > 2
              /\ trace[i - 2] = [ev |-> "answer", api |-> "weather_by_name",
                                 raised |-> FALSE, status_code |-> HTTP_NOT_FOUND]
        /\ \A i \in CallsTo("weather_by_coord") :
              /\ i > 1
              /\ trace[i - 1].ev = "result"
              /\ trace[i - 1].fn = "get_coordinates"
              /\ trace[i - 1].outcome.t = "return"
              /\ trace[i - 1].outcome.v # None
              /\ GeoHit(geo_response)
        /\ \A i \in CallsTo("completion") :
              (\E j \in CallsTo("completion") : j < i)
              => /\ \E k \in 1..(i - 1) :
                        trace[k] = [ev |-> "answer", api |-> "completion",
                                    raised |-> FALSE, status_code |-> 0]
                 /\ trace[i - 1].ev = "result"
                 /\ trace[i - 1].fn = "get_weather"
        /\ \A k \in DOMAIN trace :
              (trace[k].ev = "answer"
                    /\ (trace[k].raised
                        \/ (trace[k].api # "completion" /\ trace[k].status_code # HTTP_OK)))
              => \A i \in NetworkCalls : i > k => trace[i].api # trace[k].api

\* a request that made all five calls, the last of which failed
C10_Witness ==
    /\ ChatDone
    /\ Cardinality(CallsTo("completion")) = 2
    /\ CallsTo("weather_by_name") # {}
    /\ CallsTo("geocoding") # {}
    /\ CallsTo("weather_by_coord") # {}
    /\ RaisedTimeout(coord_response)
    /\ second_response.t = "raise"

(***************************************************************************)
(* Reading the failures of the completion calls.                           *)
(***************************************************************************)
\* the details of the completion calls of the request that failed
FailedCompletionDetails ==
    (IF message # None /\ message.t = "raise" /\ message.exc.cls = "APIError"
     THEN {message.exc.detail} ELSE {})
    \cup (IF second_response # None /\ second_response.t = "raise"
          THEN {second_response.exc.detail} ELSE {})

\* the detail d holds the token tok, letter case ignored
Mentions(d, tok) ==
    \E i \in 1..Len(d) :
        /\ i + Len(tok) - 1 <= Len(d)
        /\ Lower(SubSeq(d, i, i + Len(tok) - 1)) = tok

(***************************************************************************)
(* C11: a failure of a completion call is turned into exactly one fixed    *)
(* sentence chosen by substring checks on its detail (letter case          *)
(* ignored): "401" or "unauthorized" gives the invalid-key sentence,       *)
(* otherwise "404" or "not found" the model-not-found sentence, otherwise  *)
(* "429" or "rate limit" the rate-limit sentence, otherwise "timeout" the  *)
(* timeout sentence, and any other detail the generic sentence.            *)
(***************************************************************************)
C11_FailureSentenceByPriority ==
    ChatDone =>
        \A d \in FailedCompletionDetails :
            /\ result.t = "return"
            /\ IsStr(result.v)
            /\ IF Mentions(d, Tok401) \/ Mentions(d, TokUnauthorized)
               THEN result.v = InvalidKeySentence
               ELSE IF Mentions(d, Tok404) \/ Mentions(d, TokNotFound)
               THEN result.v = ModelNotFoundSentence
               ELSE IF Mentions(d, Tok429) \/ Mentions(d, TokRateLimit)
               THEN result.v = RateLimitSentence
               ELSE IF Mentions(d, TokTimeout)
               THEN result.v = ModelTimeoutSentence
               ELSE result.v.kind = GenericErrorSentence(<<>>).kind

\* a second completion call that failed with a detail holding both "404"
\* and "timeout", answered with the model-not-found sentence
C11_Witness ==
    /\ ChatDone
    /\ second_response # None
    /\ second_response.t = "raise"
    /\ Mentions(second_response.exc.detail, Tok404)
    /\ Mentions(second_response.exc.detail, TokTimeout)
    /\ result = Return(ModelNotFoundSentence)

\* the detail d holds none of the tokens of the except clause
MentionsNoToken(d) ==
    ~\E tok \in {Tok401, TokUnauthorized, Tok404, TokNotFound, Tok429, TokRateLimit,
                  TokTimeout} : Mentions(d, tok)

(***************************************************************************)
(* C12: for a failed completion call whose detail matches none of the      *)
(* classification tokens, whatever the length of the detail, the sentence  *)
(* returned holds at most the first 150 characters of the detail: the      *)
(* whole detail when it is no longer than that, and exactly its 150-       *)
(* character prefix when it is longer.                                     *)
(***************************************************************************)
C12_UnknownErrorTruncated ==
    ChatDone =>
        \A d \in FailedCompletionDetails :
            MentionsNoToken(d)
            => /\ result.t = "return"
               /\ result.v.kind = GenericErrorSentence(<<>>).kind
               /\ Len(result.v.shown) <= MaxErrorChars
               /\ Len(result.v.shown) <= Len(d)
               /\ \A i \in 1..Len(result.v.shown) : result.v.shown[i] = d[i]
               /\ Len(d) > MaxErrorChars => Len(result.v.shown) = MaxErrorChars
               /\ Len(d) <= MaxErrorChars => result.v.shown = d

\* a first completion call that failed with an unknown detail longer than
\* 150 characters, of which the sentence shows the first 150
C12_Witness ==
    /\ ChatDone
    /\ message # None
    /\ message.t = "raise"
    /\ message.exc.cls = "APIError"
    /\ MentionsNoToken(message.exc.detail)
    /\ Len(message.exc.detail) > MaxErrorChars
    /\ result = Return(GenericErrorSentence(SubSeq(message.exc.detail, 1, MaxErrorChars)))

(***************************************************************************)
(* C18: the fixed model-failure sentences (invalid key, model not found,   *)
(* rate limited, timed out) are returned only when a completion call was   *)
(* attempted and failed; a failure before the first completion call or     *)
(* between the two calls never yields one of them.  The except clause      *)
(* classifies every exception of the function by its text alone: the       *)
(* lookup of an undefined NVIDIA_API_KEY raises "NVIDIA_API_KEY not        *)
(* found. ...", which is answered with the model-not-found sentence before *)
(* any call is made, and tool-call arguments that fail to parse at         *)
(* character 401 are answered with the invalid-key sentence: TLC finds     *)
(* C18_FailureSentencesOnlyFromFailedCalls violated.                       *)
(***************************************************************************)
C18_FailureSentencesOnlyFromFailedCalls ==
    (ChatDone /\ result.t = "return"
        /\ result.v \in {InvalidKeySentence, ModelNotFoundSentence, RateLimitSentence,
                         ModelTimeoutSentence})
    => FailedCompletionDetails # {}

(***************************************************************************)
(* Reading the route of a request.                                         *)
(***************************************************************************)
RouterEntries == {"get_nvidia_response", "get_nvidia_response_keyword"}
Routes == {i \in DOMAIN trace : trace[i].ev = "route"}
Branches == {trace[i].branch : i \in Routes}

\* the request ended before its router chose a branch: the completion-API
\* key is unusable, or, with function calling, the first completion call
\* gave no message or the arguments of its tool call could not be used
EndedInStart ==
    \/ KeyUnusable(env.NVIDIA_API_KEY)
    \/ /\ entry = "get_nvidia_response"
       /\ \/ message.t = "raise"
          \/ /\ message.t = "return"
             /\ HasToolCalls(message.v)
             /\ LET first == message.v.tool_calls.items[1]
                IN  \/ first.arguments.shape = "invalid"
                    \/ first.name = "get_weather" /\ first.arguments.shape = "array"

(***************************************************************************)
(* C13, as claimed: every request follows Start -> {WeatherBranch |        *)
(* ChatBranch} -> Done, taking exactly one of the two branches.  Violated: *)
(* a request whose completion-API key is missing returns from Start        *)
(* without entering a branch.                                              *)
(***************************************************************************)
C13_ExactlyOneBranch ==
    (pc = "done" /\ entry \in RouterEntries) => Cardinality(Routes) = 1

(***************************************************************************)
(* C13, amended: every request makes at most one routing decision and      *)
(* takes at most one of the two branches, never moving from one to the     *)
(* other (no weather lookup in the chat branch, no completion call in the  *)
(* weather branch of the keyword router, no lookup or call before the      *)
(* decision other than the first completion call of function calling),     *)
(* and always reaches Done; it takes exactly one branch unless it ends in  *)
(* Start, which happens when the completion-API key is missing or empty,   *)
(* and, with function calling, when the first completion call gives no     *)
(* message or the arguments of its tool call cannot be used.               *)
(***************************************************************************)
C13_AtMostOneBranchThenDone ==
    /\ [](entry \in RouterEntries
            => /\ Cardinality(Routes) <= 1
               /\ Invocations("get_weather") # {} => Branches = {"weather"}
               /\ \A i \in Invocations("get_weather") : \E j \in Routes : j < i
               /\ "chat" \in Branches => Invocations("get_weather") = {}
               /\ entry = "get_nvidia_response_keyword"
                  => /\ CallsTo("completion") # {} => Branches = {"chat"}
                     /\ \A i \in CallsTo("completion") : \E j \in Routes : j < i
               /\ entry = "get_nvidia_response"
                  => \A i \in CallsTo("completion") :
                        (\E j \in Routes : j < i) <=> (\E k \in CallsTo("completion") : k < i)
               /\ pc = "done" => (Routes = {} <=> EndedInStart))
    /\ (entry \in RouterEntries) ~> (pc = "done")

\* a request of the function-calling router that went through the weather
\* branch to its end
C13_Witness ==
    /\ pc = "done"
    /\ entry = "get_nvidia_response"
    /\ Branches = {"weather"}
    /\ Cardinality(CallsTo("completion")) = 2
    /\ CallsTo("weather_by_coord") # {}

(***************************************************************************)
(* Reading a request of the keyword router.                                *)
(***************************************************************************)
KeywordEntry == entry = "get_nvidia_response_keyword"

\* the message holds one of the weather keywords, letter case ignored
HoldsWeatherKeyword(um) == \E keyword \in weather_keywords : Mentions(um.chars, keyword)

(***************************************************************************)
(* C14, as claimed: in the keyword-heuristic strategy a message holding    *)
(* any of the weather keywords never reaches the completion service and    *)
(* returns the weather lookup's text when the extractor yields a city and  *)
(* the specify-a-city prompt when it yields none; a message holding no     *)
(* keyword never calls the weather lookup and returns the completion's     *)
(* text.  Violated: with the completion-API key missing a weather          *)
(* question returns the missing-key sentence, and a completion call that   *)
(* fails is answered with a failure sentence.                              *)
(***************************************************************************)
C14_KeywordDecidesAnswer ==
    (KeywordEntry /\ pc = "done")
    => IF HoldsWeatherKeyword(user_message)
       THEN /\ CallsTo("completion") = {}
            /\ IF Truthy(extract_city_name(user_message))
               THEN \E i \in Results("get_weather") : trace[i].outcome = result
               ELSE result = Return(SpecifyCityPrompt)
       ELSE /\ Invocations("get_weather") = {}
            /\ llm_response # None
            /\ llm_response.t = "return"
            /\ result = Return(IF "content" \in llm_response.v.has
                               THEN llm_response.v.content
                               ELSE [t |-> "str", kind |-> "str(response)",
                                     response |-> llm_response.v])

(***************************************************************************)
(* C14, amended: in the keyword-heuristic strategy, with a completion-API  *)
(* key present, a message holding any of the weather keywords (letter case *)
(* ignored) never reaches the completion service: when the extractor       *)
(* yields a non-empty city the weather lookup is called once with that     *)
(* city and its text is returned verbatim, and when the extractor yields   *)
(* nothing or an empty name the specify-a-city prompt is returned without  *)
(* a lookup; a message holding no keyword never calls the weather lookup,  *)
(* makes one completion call and returns its text when the call succeeds   *)
(* and a failure sentence when it fails.  With the key missing or empty    *)
(* every message gets the missing-key sentence and no service is called.   *)
(***************************************************************************)
C14_KeywordDecidesAnswerWithKey ==
    KeywordEntry
    => IF KeyUnusable(env.NVIDIA_API_KEY)
       THEN /\ pc = "done"
            /\ result = Return(NvidiaKeyNotFound)
            /\ NetworkCalls = {}
            /\ Invocations("get_weather") = {}
       ELSE IF HoldsWeatherKeyword(user_message)
       THEN /\ CallsTo("completion") = {}
            /\ IF Truthy(extract_city_name(user_message))
               THEN /\ Cardinality(Invocations("get_weather")) = 1
                    /\ \A i \in Invocations("get_weather") :
                          trace[i].arg = extract_city_name(user_message)
                    /\ pc = "done"
                       => /\ IsStr(result.v)
                          /\ \E i \in Results("get_weather") : trace[i].outcome = result
               ELSE /\ pc = "done"
                    /\ result = Return(SpecifyCityPrompt)
                    /\ Invocations("get_weather") = {}
                    /\ NetworkCalls = {}
       ELSE /\ Invocations("get_weather") = {}
            /\ Cardinality(CallsTo("completion")) = 1
            /\ pc = "done"
               => /\ llm_response # None
                  /\ (llm_response.t = "return" /\ "content" \in llm_response.v.has)
                     => result = Return(llm_response.v.content)
                  /\ llm_response.t = "raise"
                     => result.v.kind \in {InvalidKeySentence.kind, ModelNotFoundSentence.kind,
                                           RateLimitSentence.kind, ModelTimeoutSentence.kind,
                                           GenericErrorSentence(<<>>).kind}

\* "is it raining in Paris", answered with the report of the lookup for
\* Paris
C14_Witness ==
    /\ KeywordEntry
    /\ pc = "done"
    /\ user_message = MsgRainingInParis
    /\ city_name = Text(<<"P","a","r","i","s">>)
    /\ IsReport(result.v)
    /\ CallsTo("completion") = {}

(***************************************************************************)
(* Reading a call of the city extractor.                                   *)
(***************************************************************************)
\* the patterns, by their place in the list, that match the lower-cased
\* message
MatchingPatterns(um) ==
    {k \in 1..Len(Patterns) : re_search(Patterns[k], Lower(um.chars)) # None}

FirstMatchingPattern(um) ==
    CHOOSE k \in MatchingPatterns(um) : \A o \in MatchingPatterns(um) : k <= o

\* the extractor returned this name
Extracted(um, name) ==
    (user_message = um) => (result = Return(Text(name)))

(***************************************************************************)
(* C15: the city extractor tries its phrase patterns in a fixed order and  *)
(* the first one that matches decides the result, which is its captured    *)
(* span, trimmed and title-cased; when no pattern matches it returns the   *)
(* last whitespace-delimited token of the message, title-cased, if the     *)
(* message has at least two tokens, and nothing if it has fewer: "weather" *)
(* gives nothing, "check Paris" gives "Paris", and in "temperature of Rome *)
(* or weather in Oslo" the earlier pattern of the list, "weather in",      *)
(* decides.                                                                *)
(***************************************************************************)
C15_FirstMatchingPatternDecides ==
    (entry = "extract_city_name" /\ pc = "done")
    => /\ IF MatchingPatterns(user_message) # {}
          THEN LET match == re_search(Patterns[FirstMatchingPattern(user_message)],
                                      Lower(user_message.chars))
               IN  result = Return(Text(Title(Strip(match.group1))))
          ELSE LET words == Split(user_message.chars)
               IN  IF Len(words) >= 2
                   THEN result = Return(Text(Title(words[Len(words)])))
                   ELSE result = Return(None)
       /\ (user_message = MsgWeather) => (result = Return(None))
       /\ Extracted(MsgCheckParis, <<"P","a","r","i","s">>)
       /\ Extracted(MsgWeatherInLondon, <<"L","o","n","d","o","n">>)
       /\ Extracted(MsgTemperatureInNewYork, <<"N","e","w"," ","Y","o","r","k">>)
       /\ Extracted(MsgRainingInParis, <<"P","a","r","i","s">>)
       /\ Extracted(MsgTwoPhrases, <<"O","s","l","o">>)

\* two patterns match "temperature of Rome or weather in Oslo", the tenth
\* one earlier in the text; the first one of the list decides
C15_Witness ==
    /\ entry = "extract_city_name"
    /\ pc = "done"
    /\ user_message = MsgTwoPhrases
    /\ MatchingPatterns(user_message) = {1, 10}
    /\ result = Return(Text(<<"O","s","l","o">>))

(***************************************************************************)
(* Reading a request of the chat endpoint.                                 *)
(***************************************************************************)
\* the step that ends the handling of a request
Handled == view # "responded" /\ view' = "responded"

\* the message of a body, '' when the body carries none
SentMessage(body) == IF "message" \in body.has THEN body.message ELSE Text(<<>>)

\* a JSON object whose message, if any, is a text
WellFormed(body) == body.shape = "object" /\ SentMessage(body).t = "str"

Blank(chars) == \A i \in 1..Len(chars) : IsSpace(chars[i])

\* a well-formed body whose message is more than whitespace
Accepted(body) == WellFormed(body) /\ ~Blank(SentMessage(body).chars)

\* m is chars without the whitespace around it
IsTrimOf(m, chars) ==
    /\ Len(m) > 0
    /\ ~IsSpace(m[1])
    /\ ~IsSpace(m[Len(m)])
    /\ \E a \in 0..Len(chars) :
          /\ a + Len(m) <= Len(chars)
          /\ SubSeq(chars, a + 1, a + Len(m)) = m
          /\ Blank(SubSeq(chars, 1, a))
          /\ Blank(SubSeq(chars, a + Len(m) + 1, Len(chars)))

\* the rows that were there are there, unchanged
RowsKept == Len(db') >= Len(db) /\ \A i \in 1..Len(db) : db'[i] = db[i]

(***************************************************************************)
(* C16, as claimed: every chat request that the endpoint handles leads to  *)
(* exactly one persisted exchange, holding that request's user message and *)
(* the bot response returned for it, and the exchange is never changed     *)
(* after it is created.  Violated: a request that is turned away (empty    *)
(* message, body that is not JSON) persists nothing, and neither does a    *)
(* request whose save fails.                                               *)
(***************************************************************************)
C16_ExactlyOneExchangePerRequest ==
    [][/\ RowsKept
       /\ Handled
          => /\ Len(db') = Len(db) + 1
             /\ db'[Len(db')].bot_response = http'.data.response
             /\ IsTrimOf(db'[Len(db')].user_message.chars, SentMessage(request').chars)
       /\ ~Handled => db' = db]_vars

(***************************************************************************)
(* C16, amended: every chat request that the endpoint handles leads to at  *)
(* most one persisted exchange: none when the request is turned away (its  *)
(* body is not a JSON object, or its message is not a text, is missing, is *)
(* empty or is only whitespace), none when the save fails, and otherwise   *)
(* exactly one, created as the request is answered and holding the         *)
(* request's message without the whitespace around it and the bot response *)
(* returned for it.  The endpoint never changes or removes an exchange     *)
(* after it is created.                                                    *)
(***************************************************************************)
C16_AtMostOneExchangePerRequest ==
    [][/\ RowsKept
       /\ Handled
          => IF ~Accepted(request') THEN db' = db
             ELSE \/ db' = db
                  \/ /\ Len(db') = Len(db) + 1
                     /\ db'[Len(db')].t = "ChatMessage"
                     /\ db'[Len(db')].bot_response = http'.data.response
                     /\ IsTrimOf(db'[Len(db')].user_message.chars,
                                 SentMessage(request').chars)
       /\ ~Handled => db' = db]_vars

\* " Hello \n" was sent and answered, and the one row holds "Hello" and the
\* response that was returned
C16_Witness ==
    /\ view = "responded"
    /\ request.shape = "object"
    /\ SentMessage(request) = Text(<<" ","H","e","l","l","o"," ","\n">>)
    /\ Len(db) = 1
    /\ db[1] = ChatMessage(Text(<<"H","e","l","l","o">>), http.data.response)
    /\ IsStr(http.data.response)

(***************************************************************************)
(* C19: in the chat endpoint a request whose message is empty or only      *)
(* whitespace gets the error envelope with status 400 and causes neither a *)
(* call to the core nor a persisted exchange; any other well-formed        *)
(* request gets the success envelope, with status 200, carrying exactly    *)
(* what the core returned, whether the save stored the exchange or failed. *)
(***************************************************************************)
C19_EnvelopeOfRequest ==
    [][(Handled /\ WellFormed(request'))
       => IF Blank(SentMessage(request').chars)
          THEN /\ http'.status = 400
               /\ DOMAIN http'.data = {"error", "status"}
               /\ http'.data.status = "error"
               /\ trace' = <<>>
               /\ entry' = "none"
               /\ db' = db
          ELSE /\ http'.status = 200
               /\ http'.data = [response |-> result'.v, status |-> "success"]
               /\ result'.t = "return"
               /\ trace'[Len(trace')] = Result("get_nvidia_response", result')
               /\ Cardinality({i \in DOMAIN trace' :
                                  trace'[i] = Invoke("get_nvidia_response",
                                                     Text(Strip(SentMessage(request').chars)))})
                  = 1]_vars

\* the save of the first exchange failed, and the request was answered with
\* the success envelope carrying the core's text
C19_Witness ==
    /\ view = "responded"
    /\ Accepted(request)
    /\ db = <<>>
    /\ IsStr(result.v)
    /\ http = JsonResponse([response |-> result.v, status |-> "success"], 200)

(***************************************************************************)
(* Reading two requests handled side by side.                              *)
(***************************************************************************)
\* what get_weather(city) returns when it runs alone and its calls are
\* answered as the calls of the request with locals l were
WeatherAlone(e, city, l) ==
    LET begun == get_weather_begin(e, city)
        byname == get_weather_on_response(city, l.response)
        geo == get_coordinates_begin(e, city)
        found == IF geo.do = "return" THEN Return(geo.value)
                 ELSE get_coordinates_end(city, l.geo_response)
        bycoord == get_weather_on_coords(e, city, found.v)
    IN  IF begun.do = "return" THEN begun.value
        ELSE IF byname.do = "return" THEN byname.value
        ELSE IF bycoord.do = "return" THEN bycoord.value
        ELSE get_weather_on_coord_response(city, found.v, l.coord_response).value

\* the request with locals l has ended as it ends when it is handled alone:
\* its result, and the weather text it sent with its second completion
\* call, follow from its own message and the answers to its own calls
AsIfAlone(e, l) ==
    LET begun == get_nvidia_response_begin(e, l.user_message)
        first == get_nvidia_response_on_first(l.llm_response)
        calls == {i \in DOMAIN l.trace : l.trace[i].ev = "call"
                                         /\ l.trace[i].api = "completion"}
    IN  IF begun.do = "return"
        THEN l.result = Return(begun.value) /\ calls = {}
        ELSE /\ \E i \in calls : l.trace[i] = Call(FirstRequest(l.user_message))
             /\ IF first.do = "return"
                THEN l.result = Return(first.value) /\ Cardinality(calls) = 1
                ELSE /\ Cardinality(calls) = 2
                     /\ \E i \in calls :
                           l.trace[i] = Call(SecondRequest(l.user_message, first.tool_call,
                                                           WeatherAlone(e, first.location, l)))
                     /\ l.result = Return(get_nvidia_response_on_second(l.second_response).value)

\* a step of one thread leaves the locals of the other as they were, and
\* the thread that runs next finds its own; the configuration is only read
OwnLocalsOnly ==
    /\ env' = env
    /\ \/ parked' = parked
       \/ parked' = Locals /\ Locals' = parked

(***************************************************************************)
(* C17: when several requests are handled concurrently the routing of each *)
(* is isolated: under every interleaving of their steps a request ends     *)
(* with the response it has when handled alone, which depends only on its  *)
(* own message and on the answers of the external services to its own      *)
(* calls (and on the configuration, which no request writes), and no state *)
(* written by one request is read by another.                              *)
(***************************************************************************)
C17_RequestsIsolated ==
    /\ [](\A l \in {Locals, parked} :
            (l.entry = "get_nvidia_response" /\ l.pc = "done") => AsIfAlone(env, l))
    /\ [][OwnLocalsOnly]_vars

\* a request for Pulluvazhy has ended with the model's second text while
\* the other thread's request, for London, waits for its weather call
C17_Witness ==
    /\ entry = "get_nvidia_response"
    /\ pc = "done"
    /\ city_name = Text(<<"P","u","l","l","u","v","a","z","h","y">>)
    /\ IsStr(weather_data)
    /\ AsIfAlone(env, Locals)
    /\ parked.entry = "get_nvidia_response"
    /\ parked.pc = "byname"
    /\ parked.city_name = Text(<<"L","o","n","d","o","n">>)

====
